---- MODULE Spec2Model ----
(***************************************************************************)
(* Workflow orchestration engine of SYMBIONT-X                             *)
(* (src/agents/orchestrator): the per-workflow execution unit              *)
(* WorkflowEngine._execute_workflow, the control-plane calls that touch    *)
(* the same workflow (cancel, approve, reject), the in-memory store        *)
(* behind them, and the approval store with its audit trail.               *)
(*                                                                         *)
(* Execution model.  The orchestrator is one asyncio event loop.  A        *)
(* coroutine runs without interruption until it awaits something that      *)
(* really suspends; in this code base those are exactly the HTTP requests  *)
(* of AgentClient (and the sleep between two polls).  StateManager's       *)
(* methods are `async def` but never suspend.  One action of this module   *)
(* is therefore one run of a coroutine from one suspension point to the    *)
(* next.                                                                   *)
(*                                                                         *)
(* Storage.  The default configuration (config.py: cosmos_endpoint = None) *)
(* keeps workflows in StateManager._workflows, a dict of object            *)
(* references: get_workflow returns the very object the execution unit     *)
(* holds, so there is one Workflow object per id and `workflows[w]` is it. *)
(*                                                                         *)
(* Time.  datetime.utcnow() is a logical clock `now`; every action that    *)
(* stamps a workflow advances it by one and stamps with the new value.     *)
(* Step start/end stamps and created_at are not modelled.  In the          *)
(* specification of the approval API the clock also advances on its own    *)
(* (Tick), one unit standing for one hour of expires_in_hours.             *)
(*                                                                         *)
(* Specifications.  Spec: one workflow and the control plane.  SpecTwo:    *)
(* two execution units, fairly scheduled.  SpecHitl: the approval API      *)
(* (hitl_api.py) with expiry and notification.  SpecResume: one execution  *)
(* unit together with the creation and decision of approval requests.      *)
(* SpecAudit: the audit log and the comments behind the HITL API, with a   *)
(* wall clock that can be set back between two calls (SetClock).           *)
(***************************************************************************)
EXTENDS Integers, Sequences, FiniteSets, TLC

VARIABLES settings, unstarted, workflows, pc, locals, approving,
          calls, response, ops, approvals_store, audit_entries,
          notification_service, now, comments

vars == <<settings, unstarted, workflows, pc, locals, approving,
          calls, response, ops, approvals_store, audit_entries,
          notification_service, now, comments>>

----------------------------------------------------------------------------
(* Bounds and input sets *)

\* workflow ids

AllIds == {"w1", "w2"}

\* start requests the environment makes in the main specification; a call
\* that names one of them before it is started names an unknown workflow
StartRequests == {"w1"}

\* vulnerability lists a completed scan may report
ScanLists == {<<>>, <<"v1">>, <<"v1", "v2">>}

VulnIds == {"v1", "v2"}

Priorities == {"P0", "P1", "P2", "P3", "P4"}

\* vulnerability id lists a client may name in an approve call
ApproveNames == {{}, {"v1"}, {"v1", "v2"}}

\* vulnerability id lists a client may put in a new approval request
ApprovalScopes == {<<"v1">>}

\* control-plane calls (cancel / approve / reject / create approval) per
\* behaviour
MaxOps == 2

\* settings.workflow_timeout_seconds, scaled down (default 600)
MaxWait == 10

\* poll_interval default of AgentClient.poll_scan_completion
PollInterval == 5

\* what a failed collaborator call reports: "Status <code>", or str(e) of the
\* exception, which is empty for an exception raised without a message
ErrorMessages == {"", "Status 500"}

\* CreateApprovalRequest.expires_in_hours: its default, and the values a
\* client of the approval API supplies
DefaultExpiry == 24

ExpiryHours == {1, 2}

\* ApprovalDecision bodies: who decides what, with or without a comment
\* ("None": omitted)
Decisions == {[approved |-> TRUE, resolver |-> "alice", comment |-> "ok"],
              [approved |-> TRUE, resolver |-> "bob", comment |-> "None"],
              [approved |-> FALSE, resolver |-> "bob", comment |-> "no"]}

\* approval API calls per behaviour, approval requests per behaviour and
\* the last instant of the clock in the approval specification
MaxCalls == 3

MaxApprovals == 2

MaxTime == 3
MaxClock == 1

----------------------------------------------------------------------------
(* WorkflowStatus values, models.py *)

PENDING == "pending"
SCANNING == "scanning"
ASSESSING == "assessing"
AWAITING_APPROVAL == "awaiting_approval"
REMEDIATING == "remediating"
COMPLETED == "completed"
FAILED == "failed"
CANCELLED == "cancelled"

StepIds == <<"scan", "assess", "decide", "remediate", "complete">>

NoData == [set |-> FALSE, vulnerabilities |-> <<>>, assessments |-> <<>>,
           auto_remediated |-> 0, awaiting_approval |-> 0]

\* WorkflowStep created already in progress
WorkflowStep_Started == [status |-> SCANNING, output_data |-> NoData, error_message |-> ""]

\* error_message "" stands for None
WorkflowStep == [status |-> PENDING, output_data |-> NoData, error_message |-> ""]

\* Workflow(...) as built by StateManager.create_workflow
NewWorkflow(auto) ==
    [status |-> PENDING,
     current_step |-> "scan",
     steps |-> [s \in {StepIds[i] : i \in 1..Len(StepIds)} |-> WorkflowStep],
     scan_id |-> FALSE,
     assessment_id |-> FALSE,
     remediation_ids |-> 0,
     total_vulnerabilities |-> 0,
     critical_count |-> 0,
     high_count |-> 0,
     auto_remediated |-> 0,
     awaiting_approval |-> 0,
     updated_at |-> 0,
     completed_at |-> 0,
     auto_remediate |-> auto]

----------------------------------------------------------------------------
(* StateManager *)

\* StateManager.update_workflow: stamp and save (the save stores the same
\* object again)
update_workflow(wf, t) == [wf EXCEPT !.updated_at = t]

\* StateManager.update_step; `output_data` / `error_message` are only
\* written when truthy
update_step(wf, step_id, status, output_data, error_message, t) ==
    LET old == wf.steps[step_id]
        new == [status |-> status,
                output_data |-> IF output_data.set THEN output_data
                                ELSE old.output_data,
                error_message |-> IF error_message # "" THEN error_message
                                  ELSE old.error_message]
    IN update_workflow([wf EXCEPT !.steps[step_id] = new], t)

\* StateManager.complete_workflow
complete_workflow(wf, status, t) ==
    update_workflow([wf EXCEPT !.status = status,
                               !.completed_at = t,
                               !.current_step = "none"], t)

----------------------------------------------------------------------------
(* WorkflowEngine: the execution unit, one operator per stage.  A stage    *)
(* maps the workflow object to an outcome: the object as the stage leaves  *)
(* it, the suspension point reached (or "done"), the collaborator requests *)
(* issued on the way and the coroutine's live locals.                      *)

NoLocals == [elapsed |-> 0, status |-> "none",
             to_auto_remediate |-> <<>>, to_await_approval |-> <<>>]

Outcome(wf, at, reqs, loc) == [wf |-> wf, pc |-> at, reqs |-> reqs, loc |-> loc]

\* a request as the collaborator receives it; `named` is the id list of the
\* approval call that caused it (empty for the execution unit)
Request(to, vulns, by, named) ==
    [to |-> to, vulns |-> vulns, by |-> by, named |-> named]

\* ids of a list of vulnerability objects
Ids(vs) == [i \in 1..Len(vs) |-> vs[i].id]

\* Route with the require-approval flag read the wrong way round
Route_FlagInverted(priority, auto_remediate_config) ==
    IF priority \in {"P0", "P1"}
    THEN IF settings.require_approval_p0_p1 THEN "auto" ELSE "approval"
    ELSE IF priority = "P2"
    THEN IF settings.auto_remediate_p2 THEN "auto" ELSE "approval"
    ELSE IF priority \in {"P3", "P4"}
    THEN IF settings.auto_remediate_p3_p4 /\ auto_remediate_config
         THEN "auto" ELSE "none"
    ELSE "none"

\* the decision table of _execute_remediation_decisions
Route(priority, auto_remediate_config) ==
    IF priority \in {"P0", "P1"}
    THEN IF settings.require_approval_p0_p1 THEN "approval" ELSE "auto"
    ELSE IF priority = "P2"
    THEN IF settings.auto_remediate_p2 THEN "auto" ELSE "approval"
    ELSE IF priority \in {"P3", "P4"}
    THEN IF settings.auto_remediate_p3_p4 /\ auto_remediate_config
         THEN "auto" ELSE "none"
    ELSE "none"

\* the `vuln` object built for one assessment
Vuln(a) == [id |-> a.vulnerability_id, priority |-> a.priority]

\* Categorize that looks at the first assessment only
Categorize_FirstOnly(assessments, auto_remediate_config, target) ==
    IF assessments = <<>> THEN <<>>
    ELSE IF Route(Head(assessments).priority, auto_remediate_config) = target
    THEN <<Vuln(Head(assessments))>> ELSE <<>>

RECURSIVE Categorize(_, _, _)
Categorize(assessments, auto_remediate_config, target) ==
    IF assessments = <<>> THEN <<>>
    ELSE LET a == Head(assessments)
             rest == Categorize(Tail(assessments), auto_remediate_config, target)
         IN IF Route(a.priority, auto_remediate_config) = target
            THEN <<Vuln(a)>> \o rest ELSE rest

\* the `except Exception` arm of _execute_workflow
ExceptionHandler(wf, t) ==
    Outcome(update_workflow([wf EXCEPT !.status = FAILED], t),
            "done", <<>>, NoLocals)

\* CompleteWorkflow that leaves the workflow as the stages left it
CompleteWorkflow_Skipped(wf, t) == Outcome(wf, "done", <<>>, NoLocals)

\* WorkflowEngine._complete_workflow, then the execution unit ends
CompleteWorkflow(wf, t) ==
    Outcome(IF wf.status # AWAITING_APPROVAL
            THEN complete_workflow(wf, COMPLETED, t) ELSE wf,
            "done", <<>>, NoLocals)

\* HandleApproval recording the decision in the assess step
HandleApproval_WrongStep(wf, to_auto_remediate, to_await_approval, t) ==
    LET w1 == IF to_await_approval # <<>>
              THEN [wf EXCEPT !.awaiting_approval = Len(to_await_approval),
                              !.status = AWAITING_APPROVAL]
              ELSE wf
        w2 == update_step(w1, "assess",
                  IF to_await_approval = <<>> THEN COMPLETED
                  ELSE AWAITING_APPROVAL,
                  [NoData EXCEPT !.set = TRUE,
                                 !.auto_remediated = Len(to_auto_remediate),
                                 !.awaiting_approval = Len(to_await_approval)],
                  "", t)
    IN CompleteWorkflow(update_workflow(w2, t), t)

\* _execute_remediation_decisions from "Handle items needing approval" on,
\* followed by step 4 of _execute_workflow
HandleApproval(wf, to_auto_remediate, to_await_approval, t) ==
    LET w1 == IF to_await_approval # <<>>
              THEN [wf EXCEPT !.awaiting_approval = Len(to_await_approval),
                              !.status = AWAITING_APPROVAL]
              ELSE wf
        w2 == update_step(w1, "remediate",
                  IF to_await_approval = <<>> THEN COMPLETED
                  ELSE AWAITING_APPROVAL,
                  [NoData EXCEPT !.set = TRUE,
                                 !.auto_remediated = Len(to_auto_remediate),
                                 !.awaiting_approval = Len(to_await_approval)],
                  "", t)
    IN CompleteWorkflow(update_workflow(w2, t), t)

\* ExecuteRemediationDecisions with the approval hand-off done before the
\* auto-remediation batch is requested
ExecuteRemediationDecisions_EarlyHandOff(wf, t) ==
    LET w1 == [wf EXCEPT !.status = REMEDIATING]
        assess_step == w1.steps["assess"]
        assessments == assess_step.output_data.assessments
        auto == w1.auto_remediate
        to_auto_remediate == Categorize(assessments, auto, "auto")
        to_await_approval == Categorize(assessments, auto, "approval")
    IN IF ~assess_step.output_data.set \/ assessments = <<>>
       THEN CompleteWorkflow(w1, t)
       ELSE IF \E i \in 1..Len(assessments) : assessments[i].priority = "null"
       THEN ExceptionHandler(w1, t)
       ELSE IF to_auto_remediate # <<>>
       THEN Outcome(IF to_await_approval # <<>>
                    THEN [w1 EXCEPT !.awaiting_approval = Len(to_await_approval),
                                    !.status = AWAITING_APPROVAL]
                    ELSE w1,
                    "remediate_batch",
                    <<Request("remediate", Ids(to_auto_remediate), "engine", {})>>,
                    [NoLocals EXCEPT !.to_auto_remediate = to_auto_remediate,
                                     !.to_await_approval = to_await_approval])
       ELSE HandleApproval(w1, to_auto_remediate, to_await_approval, t)

\* _execute_remediation_decisions up to the remediate_batch request
ExecuteRemediationDecisions(wf, t) ==
    LET w1 == [wf EXCEPT !.status = REMEDIATING]
        assess_step == w1.steps["assess"]
        assessments == assess_step.output_data.assessments
        auto == w1.auto_remediate
        to_auto_remediate == Categorize(assessments, auto, "auto")
        to_await_approval == Categorize(assessments, auto, "approval")
    IN IF ~assess_step.output_data.set \/ assessments = <<>>
       THEN CompleteWorkflow(w1, t)
       ELSE IF \E i \in 1..Len(assessments) : assessments[i].priority = "null"
       THEN ExceptionHandler(w1, t)
       ELSE IF to_auto_remediate # <<>>
       THEN Outcome(w1, "remediate_batch",
                    <<Request("remediate", Ids(to_auto_remediate), "engine", {})>>,
                    [NoLocals EXCEPT !.to_auto_remediate = to_auto_remediate,
                                     !.to_await_approval = to_await_approval])
       ELSE HandleApproval(w1, to_auto_remediate, to_await_approval, t)

\* the rest of _execute_workflow after a stage returned `wf`
AfterStage(wf, next) == IF wf.status = FAILED
                        THEN Outcome(wf, "done", <<>>, NoLocals) ELSE next

\* ExecuteAssessment without the short cut for an empty scan
ExecuteAssessment_AlwaysAsks(wf, t) ==
    LET w1 == update_step([wf EXCEPT !.status = ASSESSING],
                          "assess", SCANNING, NoData, "", t)
        scan_step == w1.steps["scan"]
        vulnerabilities == scan_step.output_data.vulnerabilities
    IN IF ~scan_step.output_data.set
       THEN Outcome([w1 EXCEPT !.status = FAILED], "done", <<>>, NoLocals)
       ELSE Outcome(w1, "assess_vulnerabilities",
                    <<Request("assess", vulnerabilities, "engine", {})>>, NoLocals)

\* _execute_assessment up to the assess request
ExecuteAssessment(wf, t) ==
    LET w1 == update_step([wf EXCEPT !.status = ASSESSING],
                          "assess", SCANNING, NoData, "", t)
        scan_step == w1.steps["scan"]
        vulnerabilities == scan_step.output_data.vulnerabilities
    IN IF ~scan_step.output_data.set
       THEN Outcome([w1 EXCEPT !.status = FAILED], "done", <<>>, NoLocals)
       ELSE IF vulnerabilities = <<>>
       THEN LET w2 == update_workflow(
                        update_step(w1, "assess", COMPLETED,
                                    [NoData EXCEPT !.set = TRUE], "", t), t)
            IN AfterStage(w2, ExecuteRemediationDecisions(w2, t))
       ELSE Outcome(w1, "assess_vulnerabilities",
                    <<Request("assess", vulnerabilities, "engine", {})>>, NoLocals)

\* _execute_scan after poll_scan_completion returned `final_result`, and
\* what _execute_workflow runs next
ScanFinished(wf, final_result, t) ==
    IF final_result.status = "completed"
    THEN LET vulnerabilities == final_result.vulnerabilities
             w1 == update_step(
                     [wf EXCEPT !.total_vulnerabilities = Len(vulnerabilities)],
                     "scan", COMPLETED,
                     [NoData EXCEPT !.set = TRUE,
                                    !.vulnerabilities = vulnerabilities],
                     "", t)
             w2 == update_workflow(w1, t)
         IN AfterStage(w2, ExecuteAssessment(w2, t))
    ELSE LET w1 == update_step([wf EXCEPT !.status = FAILED],
                               "scan", FAILED, NoData, final_result.error, t)
         IN Outcome(update_workflow(w1, t), "done", <<>>, NoLocals)

\* PollLoop that polls once more after the ceiling
PollLoop_OneMore(wf, elapsed, status, t) ==
    IF elapsed < MaxWait + PollInterval
    THEN Outcome(wf, "poll_scan_completion", <<Request("poll", <<>>, "engine", {})>>,
                 [NoLocals EXCEPT !.elapsed = elapsed, !.status = status])
    ELSE ScanFinished(wf, [status |-> "timeout", vulnerabilities |-> <<>>,
                           error |-> "Polling timeout"], t)

\* AgentClient.poll_scan_completion at the head of its loop; `status` is the
\* status read from the previous reply
PollLoop(wf, elapsed, status, t) ==
    IF elapsed < MaxWait
    THEN Outcome(wf, "poll_scan_completion", <<Request("poll", <<>>, "engine", {})>>,
                 [NoLocals EXCEPT !.elapsed = elapsed, !.status = status])
    ELSE ScanFinished(wf, [status |-> "timeout", vulnerabilities |-> <<>>,
                           error |-> "Polling timeout"], t)

\* Apply with one status shared by all workflow objects
Apply_SharedStatus(w, out) ==
    /\ workflows' = [x \in DOMAIN workflows |->
                        IF x = w THEN out.wf
                        ELSE [workflows[x] EXCEPT !.status = out.wf.status]]
    /\ pc' = [pc EXCEPT ![w] = out.pc]
    /\ locals' = [locals EXCEPT ![w] = out.loc]
    /\ calls' = [calls EXCEPT ![w] = @ \o out.reqs]
    /\ now' = IF out.wf.updated_at = now + 1 THEN now + 1 ELSE now

\* an outcome takes effect: the object, the coroutine position, the requests;
\* the clock advances when the run stamped the object
Apply(w, out) ==
    /\ workflows' = [workflows EXCEPT ![w] = out.wf]
    /\ pc' = [pc EXCEPT ![w] = out.pc]
    /\ locals' = [locals EXCEPT ![w] = out.loc]
    /\ calls' = [calls EXCEPT ![w] = @ \o out.reqs]
    /\ now' = IF out.wf.updated_at = now + 1 THEN now + 1 ELSE now

----------------------------------------------------------------------------
(* Collaborator replies (environment) *)

\* trigger_scan: the scanner's answer, or {"error": ...}
TriggerReplies == {[has_error |-> FALSE, error |-> ""]}
                  \cup {[has_error |-> TRUE, error |-> m] : m \in ErrorMessages}

\* get_scan_results: the scanner's record of the scan (it has no "error"
\* key, so a failed scan is reported as "Scan failed"), or {"error": ...},
\* whose status reads "unknown"
PollReplies == {[status |-> "running", vulnerabilities |-> <<>>, error |-> ""],
                [status |-> "unknown", vulnerabilities |-> <<>>, error |-> "Status 500"],
                [status |-> "failed", vulnerabilities |-> <<>>, error |-> "Scan failed"]}
               \cup {[status |-> "completed", vulnerabilities |-> l, error |-> ""] :
                         l \in ScanLists}

\* a well-formed assessment list rates every submitted vulnerability
Assessments(vulns, rate) ==
    [i \in 1..Len(vulns) |-> [vulnerability_id |-> vulns[i], priority |-> rate[i]]]

AssessReplies(vulns) ==
    {[error |-> TRUE, message |-> m, assessments |-> <<>>] : m \in ErrorMessages}
    \cup {[error |-> FALSE, message |-> "", assessments |-> Assessments(vulns, rate)] :
              rate \in [1..Len(vulns) -> Priorities]}
    \cup {[error |-> FALSE, message |-> "",
           assessments |-> Assessments(vulns, [i \in 1..Len(vulns) |-> "null"])]}

RemediateReplies(batch) ==
    {[error |-> TRUE, fixes_generated |-> 0]}
    \cup {[error |-> FALSE, fixes_generated |-> n] : n \in 0..Len(batch)}

Count(assessments, p) ==
    Cardinality({i \in 1..Len(assessments) : assessments[i].priority = p})

----------------------------------------------------------------------------
(* Actions of the execution unit *)

\* the HTTP answer to a control-plane call; `arg` is the vulnerability id
\* list the call carried
Respond(op, w, arg, code) ==
    response' = [seq |-> response.seq + 1, op |-> op, wf |-> w, arg |-> arg,
                 code |-> code]

\* WorkflowEngine.start_workflow (POST /workflow)
StartWorkflow(w, auto) ==
    /\ w \in unstarted
    /\ unstarted' = unstarted \ {w}
    /\ workflows' = workflows @@ (w :> NewWorkflow(auto))
    /\ pc' = [pc EXCEPT ![w] = "created"]
    /\ Respond("start", w, {}, 200)
    /\ UNCHANGED <<comments, settings, notification_service,
                   locals, approving, calls, ops, approvals_store, audit_entries, now>>

\* _execute_scan up to the trigger_scan request
ExecuteScan(w) ==
    /\ pc[w] = "created"
    /\ LET w1 == update_step([workflows[w] EXCEPT !.status = SCANNING],
                             "scan", SCANNING, NoData, "", now + 1)
       IN Apply(w, Outcome(w1, "trigger_scan",
                           <<Request("scan", <<>>, "engine", {})>>, NoLocals))
    /\ UNCHANGED <<comments, settings, notification_service,
                   unstarted, approving, response, ops, approvals_store, audit_entries>>

\* trigger_scan returned
TriggerScanReturn(w, scan_result) ==
    /\ pc[w] = "trigger_scan"
    /\ LET wf == workflows[w]
       IN IF scan_result.has_error
          THEN Apply(w, Outcome(update_step([wf EXCEPT !.status = FAILED],
                                            "scan", FAILED, NoData,
                                            scan_result.error, now + 1),
                                "done", <<>>, NoLocals))
          ELSE Apply(w, PollLoop([wf EXCEPT !.scan_id = TRUE], 0, "none", now + 1))
    /\ UNCHANGED <<comments, settings, notification_service,
                   unstarted, approving, response, ops, approvals_store, audit_entries>>

\* one get_scan_results reply inside poll_scan_completion
PollReturn(w, result) ==
    /\ pc[w] = "poll_scan_completion"
    /\ LET wf == workflows[w]
       IN IF result.status \in {"completed", "failed"}
          THEN Apply(w, ScanFinished(wf, result, now + 1))
          ELSE Apply(w, PollLoop(wf, locals[w].elapsed + PollInterval,
                                 result.status, now + 1))
    /\ UNCHANGED <<comments, settings, notification_service,
                   unstarted, approving, response, ops, approvals_store, audit_entries>>

\* AssessReturn that completes the workflow without the decision step
AssessReturn_SkipsDecision(w, assessment_result) ==
    /\ pc[w] = "assess_vulnerabilities"
    /\ LET wf == workflows[w]
           t == now + 1
       IN IF assessment_result.error
          THEN Apply(w, Outcome(update_step([wf EXCEPT !.status = FAILED],
                                            "assess", FAILED, NoData,
                                            assessment_result.message, t),
                                "done", <<>>, NoLocals))
          ELSE LET assessments == assessment_result.assessments
                   w1 == [wf EXCEPT !.assessment_id = TRUE,
                                    !.critical_count = Count(assessments, "P0"),
                                    !.high_count = Count(assessments, "P1")]
                   w2 == update_step(w1, "assess", COMPLETED,
                                     [NoData EXCEPT !.set = TRUE,
                                                    !.assessments = assessments],
                                     "", t)
                   w3 == update_workflow(w2, t)
               IN Apply(w, AfterStage(w3, CompleteWorkflow(w3, t)))
    /\ UNCHANGED <<comments, settings, notification_service,
                   unstarted, approving, response, ops, approvals_store, audit_entries>>

\* assess_vulnerabilities returned
AssessReturn(w, assessment_result) ==
    /\ pc[w] = "assess_vulnerabilities"
    /\ LET wf == workflows[w]
           t == now + 1
       IN IF assessment_result.error
          THEN Apply(w, Outcome(update_step([wf EXCEPT !.status = FAILED],
                                            "assess", FAILED, NoData,
                                            assessment_result.message, t),
                                "done", <<>>, NoLocals))
          ELSE LET assessments == assessment_result.assessments
                   w1 == [wf EXCEPT !.assessment_id = TRUE,
                                    !.critical_count = Count(assessments, "P0"),
                                    !.high_count = Count(assessments, "P1")]
                   w2 == update_step(w1, "assess", COMPLETED,
                                     [NoData EXCEPT !.set = TRUE,
                                                    !.assessments = assessments],
                                     "", t)
                   w3 == update_workflow(w2, t)
               IN Apply(w, AfterStage(w3, ExecuteRemediationDecisions(w3, t)))
    /\ UNCHANGED <<comments, settings, notification_service,
                   unstarted, approving, response, ops, approvals_store, audit_entries>>

\* remediate_batch of the decision step returned
RemediateReturn(w, remediation_result) ==
    /\ pc[w] = "remediate_batch"
    /\ LET wf == workflows[w]
           w1 == IF ~remediation_result.error
                 THEN [wf EXCEPT !.auto_remediated = remediation_result.fixes_generated,
                                 !.remediation_ids = @ + 1]
                 ELSE wf
       IN Apply(w, HandleApproval(w1, locals[w].to_auto_remediate,
                                  locals[w].to_await_approval, now + 1))
    /\ UNCHANGED <<comments, settings, notification_service,
                   unstarted, approving, response, ops, approvals_store, audit_entries>>

----------------------------------------------------------------------------
(* Control plane, main.py *)

\* WorkflowEngine.cancel_workflow behind POST /workflow/{id}/cancel
CancelWorkflow(w) ==
    /\ ops < MaxOps
    /\ ops' = ops + 1
    /\ IF w \notin DOMAIN workflows
       THEN /\ Respond("cancel", w, {}, 404)
            /\ UNCHANGED <<workflows, now>>
       ELSE /\ workflows' = [workflows EXCEPT ![w] =
                   update_workflow([@ EXCEPT !.status = CANCELLED,
                                             !.completed_at = now + 1], now + 1)]
            /\ now' = now + 1
            /\ Respond("cancel", w, {}, 200)
    /\ UNCHANGED <<comments, settings, notification_service,
                   unstarted, pc, locals, approving, calls, approvals_store, audit_entries>>

\* POST /approve with approved = false
RejectRemediation(w) ==
    /\ ops < MaxOps
    /\ ops' = ops + 1
    /\ IF w \in DOMAIN workflows
       THEN /\ workflows' = [workflows EXCEPT ![w] =
                   update_workflow([@ EXCEPT !.status = COMPLETED,
                                             !.awaiting_approval = 0], now + 1)]
            /\ now' = now + 1
       ELSE UNCHANGED <<workflows, now>>
    /\ Respond("reject", w, {}, 200)
    /\ UNCHANGED <<comments, settings, notification_service,
                   unstarted, pc, locals, approving, calls, approvals_store, audit_entries>>

\* ApproveUpdate that leaves the count of awaited approvals
ApproveUpdate_KeepsCount(wf, t) ==
    update_workflow([wf EXCEPT !.status = COMPLETED,
                               !.completed_at = t], t)

\* the tail of WorkflowEngine.approve_remediation ("Update workflow")
ApproveUpdate(wf, t) ==
    update_workflow([wf EXCEPT !.awaiting_approval = 0,
                               !.status = COMPLETED,
                               !.completed_at = t], t)

\* ToRemediate without the filter on the named ids
ToRemediate_Unfiltered(wf, vulnerability_ids) ==
    LET assess_step == wf.steps["assess"]
    IN IF assess_step.output_data.set
       THEN Ids([i \in 1..Len(assess_step.output_data.assessments) |->
                   Vuln(assess_step.output_data.assessments[i])])
       ELSE <<>>

\* the batch approve_remediation builds from the assess step
ToRemediate(wf, vulnerability_ids) ==
    LET assess_step == wf.steps["assess"]
    IN IF assess_step.output_data.set
       THEN SelectSeq(Ids([i \in 1..Len(assess_step.output_data.assessments) |->
                             Vuln(assess_step.output_data.assessments[i])]),
                      LAMBDA v : v \in vulnerability_ids)
       ELSE <<>>

\* POST /approve with approved = true, up to the remediate_batch request
ApproveRemediation(w, vulnerability_ids) ==
    /\ ops < MaxOps
    /\ ops' = ops + 1
    /\ IF w \notin DOMAIN workflows
       THEN /\ Respond("approve", w, vulnerability_ids, 404)
            /\ UNCHANGED <<workflows, approving, calls, now>>
       ELSE IF workflows[w].status # AWAITING_APPROVAL
       THEN /\ Respond("approve", w, vulnerability_ids, 200)
            /\ UNCHANGED <<workflows, approving, calls, now>>
       ELSE LET to_remediate == ToRemediate(workflows[w], vulnerability_ids)
            IN IF to_remediate # <<>>
               THEN /\ calls' = [calls EXCEPT ![w] =
                           Append(@, Request("remediate", to_remediate, "approve",
                                          vulnerability_ids))]
                    /\ approving' = [approving EXCEPT ![w] = Append(@, vulnerability_ids)]
                    /\ UNCHANGED <<workflows, response, now>>
               ELSE /\ workflows' = [workflows EXCEPT ![w] = ApproveUpdate(@, now + 1)]
                    /\ now' = now + 1
                    /\ Respond("approve", w, vulnerability_ids, 200)
                    /\ UNCHANGED <<approving, calls>>
    /\ UNCHANGED <<comments, settings, notification_service,
                   unstarted, pc, locals, approvals_store, audit_entries>>

\* a sequence without its i-th element
Remove(seq, i) == SubSeq(seq, 1, i - 1) \o SubSeq(seq, i + 1, Len(seq))

\* remediate_batch of the i-th suspended approval returned (its reply is not
\* looked at)
ApproveReturn(w, i) ==
    /\ i \in 1..Len(approving[w])
    /\ approving' = [approving EXCEPT ![w] = Remove(@, i)]
    /\ workflows' = [workflows EXCEPT ![w] = ApproveUpdate(@, now + 1)]
    /\ now' = now + 1
    /\ Respond("approve", w, approving[w][i], 200)
    /\ UNCHANGED <<comments, settings, notification_service,
                   unstarted, pc, locals, calls, ops, approvals_store, audit_entries>>

----------------------------------------------------------------------------
(* HITL subsystem, hitl_api.py: the approval store, its audit trail and    *)
(* the notification of a new approval request.  Approval ids are positions *)
(* in the store.  The call budget of the environment is a guard of the     *)
(* specification, not of the handlers.                                      *)

PENDING_APPROVAL == "pending"
APPROVED == "approved"
REJECTED == "rejected"
EXPIRED == "expired"

\* Optional fields of an ApprovalRequest that are not set
None == "None"
NoTime == -1

\* ApprovalRequest(...) of create_approval
NewApproval(w, vulnerability_ids, expires_in_hours, t) ==
    [workflow_id |-> w, vulnerability_ids |-> vulnerability_ids,
     status |-> PENDING_APPROVAL, expires_at |-> t + expires_in_hours,
     resolved_by |-> None, resolved_at |-> NoTime, resolution_comment |-> None]

\* an AuditLogEntry without an approval id
NoId == 0

\* the AuditLogEntry that AuditLogService.log builds and appends: its
\* timestamp is the wall clock at construction, success defaults to True
log(action, actor, workflow_id, approval_id) ==
    [timestamp |-> now, action |-> action, actor |-> actor,
     workflow_id |-> workflow_id, vulnerability_id |-> None,
     approval_id |-> approval_id, success |-> TRUE]

\* AuditLogService.log_approval_requested
log_approval_requested(w, approval_id) ==
    log("approval_requested", "orchestrator", w, approval_id)

\* log_approval_decision that records the default actor
log_approval_decision_DefaultActor(approval_id, w, approved, actor) ==
    log(IF approved THEN "approval_granted" ELSE "approval_denied",
        "orchestrator", w, approval_id)

\* AuditLogService.log_approval_decision
log_approval_decision(approval_id, w, approved, actor) ==
    log(IF approved THEN "approval_granted" ELSE "approval_denied",
        actor, w, approval_id)

\* NotificationService.send_approval_request up to its suspension: with a
\* Teams webhook configured the handler waits for the POST to return
send_approval_request(approval_id) ==
    IF notification_service.teams_webhook_url
    THEN [notification_service EXCEPT !.sending = Append(@, approval_id)]
    ELSE notification_service

\* POST /hitl/approvals up to the notification
create_approval(w, vulnerability_ids, expires_in_hours) ==
    LET approval_id == Len(approvals_store) + 1
    IN /\ ops' = ops + 1
       /\ approvals_store' = Append(approvals_store,
              NewApproval(w, vulnerability_ids, expires_in_hours, now))
       /\ audit_entries' = Append(audit_entries, log_approval_requested(w, approval_id))
       /\ notification_service' = send_approval_request(approval_id)
       /\ IF notification_service.teams_webhook_url
          THEN UNCHANGED response
          ELSE Respond("create_approval", w, {approval_id}, 200)
       /\ UNCHANGED <<comments, settings, unstarted, workflows, pc, locals, approving, calls, now>>

\* NotificationReturn in which a failed delivery fails the creation
NotificationReturn_Propagates(i, delivered) ==
    /\ i \in 1..Len(notification_service.sending)
    /\ LET approval_id == notification_service.sending[i]
       IN Respond("create_approval", approvals_store[approval_id].workflow_id,
                  {approval_id}, IF delivered THEN 200 ELSE 500)
    /\ notification_service' = [notification_service EXCEPT
           !.sending = SubSeq(@, 1, i - 1) \o SubSeq(@, i + 1, Len(@)),
           !.teams_log = IF delivered THEN "sent" ELSE "failed"]
    /\ UNCHANGED <<comments, settings, unstarted, workflows, pc, locals, approving, calls,
                   ops, approvals_store, audit_entries, now>>

\* the Teams POST of the i-th waiting create_approval returned, delivered or
\* not (a status other than 200, or an exception): the handler answers
NotificationReturn(i, delivered) ==
    /\ i \in 1..Len(notification_service.sending)
    /\ LET approval_id == notification_service.sending[i]
       IN Respond("create_approval", approvals_store[approval_id].workflow_id,
                  {approval_id}, 200)
    /\ notification_service' = [notification_service EXCEPT
           !.sending = SubSeq(@, 1, i - 1) \o SubSeq(@, i + 1, Len(@)),
           !.teams_log = IF delivered THEN "sent" ELSE "failed"]
    /\ UNCHANGED <<comments, settings, unstarted, workflows, pc, locals, approving, calls,
                   ops, approvals_store, audit_entries, now>>

\* the write of decide_approval ("Update approval")
Resolve(approval, decision, t) ==
    [approval EXCEPT !.status = IF decision.approved THEN APPROVED ELSE REJECTED,
                     !.resolved_by = decision.resolver,
                     !.resolved_at = t,
                     !.resolution_comment = decision.comment]

\* decide_approval without the check of the status
decide_approval_Unchecked(approval_id, decision) ==
    /\ ops' = ops + 1
    /\ IF approval_id \notin DOMAIN approvals_store
       THEN /\ Respond("decide_approval", "none", {approval_id}, 404)
            /\ UNCHANGED <<approvals_store, audit_entries>>
       ELSE LET approval == approvals_store[approval_id]
            IN /\ approvals_store' = [approvals_store EXCEPT ![approval_id] =
                      Resolve(approval, decision, now)]
               /\ audit_entries' = Append(audit_entries,
                      log_approval_decision(approval_id, approval.workflow_id,
                                            decision.approved, decision.resolver))
               /\ Respond("decide_approval", approval.workflow_id,
                          {approval_id}, 200)
    /\ UNCHANGED <<comments, settings, notification_service, unstarted, workflows, pc, locals,
                   approving, calls, now>>

\* POST /hitl/approvals/{approval_id}/decide
decide_approval(approval_id, decision) ==
    /\ ops' = ops + 1
    /\ IF approval_id \notin DOMAIN approvals_store
       THEN /\ Respond("decide_approval", "none", {approval_id}, 404)
            /\ UNCHANGED <<approvals_store, audit_entries>>
       ELSE LET approval == approvals_store[approval_id]
            IN IF approval.status # PENDING_APPROVAL
               THEN /\ Respond("decide_approval", approval.workflow_id,
                               {approval_id}, 400)
                    /\ UNCHANGED <<approvals_store, audit_entries>>
               ELSE /\ approvals_store' = [approvals_store EXCEPT ![approval_id] =
                           Resolve(approval, decision, now)]
                    /\ audit_entries' = Append(audit_entries,
                           log_approval_decision(approval_id, approval.workflow_id,
                                                 decision.approved, decision.resolver))
                    /\ Respond("decide_approval", approval.workflow_id,
                               {approval_id}, 200)
    /\ UNCHANGED <<comments, settings, notification_service, unstarted, workflows, pc, locals,
                   approving, calls, now>>

\* Elapsed without the check of the status
Elapsed_AnyStatus(t) ==
    {i \in DOMAIN approvals_store : approvals_store[i].expires_at < t}

\* the approvals get_pending_approvals reclassifies
Elapsed(t) ==
    {i \in DOMAIN approvals_store :
        /\ approvals_store[i].status = PENDING_APPROVAL
        /\ approvals_store[i].expires_at < t}

\* get_pending_approvals that answers with the list it started from
get_pending_approvals_Stale ==
    LET pending == {i \in DOMAIN approvals_store :
                       approvals_store[i].status = PENDING_APPROVAL}
    IN /\ ops' = ops + 1
       /\ approvals_store' = [i \in DOMAIN approvals_store |->
              IF i \in Elapsed(now)
              THEN [approvals_store[i] EXCEPT !.status = EXPIRED]
              ELSE approvals_store[i]]
       /\ Respond("get_pending_approvals", "none", pending, 200)
       /\ UNCHANGED <<comments, settings, notification_service, unstarted, workflows, pc,
                      locals, approving, calls, audit_entries, now>>

\* GET /hitl/approvals/pending; the answer carries the ids returned
get_pending_approvals ==
    LET pending == {i \in DOMAIN approvals_store :
                       approvals_store[i].status = PENDING_APPROVAL}
    IN /\ ops' = ops + 1
       /\ approvals_store' = [i \in DOMAIN approvals_store |->
              IF i \in Elapsed(now)
              THEN [approvals_store[i] EXCEPT !.status = EXPIRED]
              ELSE approvals_store[i]]
       /\ Respond("get_pending_approvals", "none", pending \ Elapsed(now), 200)
       /\ UNCHANGED <<comments, settings, notification_service, unstarted, workflows, pc,
                      locals, approving, calls, audit_entries, now>>

\* GET /hitl/approvals/{approval_id}; the answer carries the status returned
get_approval(approval_id) ==
    /\ ops' = ops + 1
    /\ IF approval_id \notin DOMAIN approvals_store
       THEN Respond("get_approval", "none", {}, 404)
       ELSE Respond("get_approval", approvals_store[approval_id].workflow_id,
                    {approvals_store[approval_id].status}, 200)
    /\ UNCHANGED <<comments, settings, notification_service, unstarted, workflows, pc, locals,
                   approving, calls, approvals_store, audit_entries, now>>

\* GET /hitl/approvals?status=...; the answer carries the ids returned
list_approvals(status) ==
    /\ ops' = ops + 1
    /\ Respond("list_approvals", "none",
               {i \in DOMAIN approvals_store : approvals_store[i].status = status},
               200)
    /\ UNCHANGED <<comments, settings, notification_service, unstarted, workflows, pc, locals,
                   approving, calls, approvals_store, audit_entries, now>>

\* time passes
Tick ==
    /\ now < MaxTime
    /\ now' = now + 1
    /\ UNCHANGED <<comments, settings, notification_service, unstarted, workflows, pc, locals,
                   approving, calls, response, ops, approvals_store, audit_entries>>

\* the approval requests that reference workflow w
ApprovalsOf(w) ==
    {i \in 1..Len(approvals_store) : approvals_store[i].workflow_id = w}

----------------------------------------------------------------------------
(* Audit log and comments: audit_log.py and the /comments and /audit       *)
(* handlers of hitl_api.py.  An audit entry is identified by its position  *)
(* in audit_entries, and a query answers with the list of the positions it *)
(* returns.  A comment_id (uuid4) is the number of the comment.  The       *)
(* timestamp of an entry is datetime.utcnow(), the wall clock of the host, *)
(* which can be set back between two calls.                                *)

Targets == {"w1", "v1"}
Authors == {"alice", "bob"}
Content == "c1"
NewContent == "c2"

\* the values of enum AuditAction
AuditActions == {"scan_started", "scan_completed", "vulnerability_detected",
                 "assessment_completed", "approval_requested", "approval_granted",
                 "approval_denied", "remediation_started", "remediation_completed",
                 "remediation_failed", "comment_added", "exception_granted",
                 "workflow_completed"}

\* the query parameters clients send to GET /audit
ActionNames == {None, "approval_requested", "comment_added", "bogus"}
ActorNames == {None, "alice"}
VulnerabilityNames == {None, "v1"}
Limits == {-1, 1, 100}

\* AuditLogService._comments without a comment
NoComments == [target_id \in Targets |-> <<>>]

\* where the comments are: target and index in the list of the target
CommentSlots == UNION {{<<t, k>> : k \in DOMAIN comments[t]} : t \in Targets}

\* the comment at a slot
CommentAt(tk) == comments[tk[1]][tk[2]]

\* Comment(...) of add_comment
NewComment(comment_id, target_id, author, content) ==
    [comment_id |-> comment_id, target_id |-> target_id, author |-> author,
     content |-> content, edited_at |-> NoTime]

\* add_comment that puts its audit entry in front of the others
add_comment_Prepends(target_id, author, content) ==
    LET comment_id == Cardinality(CommentSlots) + 1
    IN /\ ops' = ops + 1
       /\ comments' = [comments EXCEPT ![target_id] =
              Append(@, NewComment(comment_id, target_id, author, content))]
       /\ audit_entries' = <<log("comment_added", author, None, NoId)>> \o audit_entries
       /\ Respond("add_comment", "none", {comment_id}, 200)
       /\ UNCHANGED <<settings, notification_service, unstarted, workflows, pc,
                      locals, approving, calls, approvals_store, now>>

\* POST /comments: AuditLogService.add_comment stores the comment and logs it
add_comment(target_id, author, content) ==
    LET comment_id == Cardinality(CommentSlots) + 1
    IN /\ ops' = ops + 1
       /\ comments' = [comments EXCEPT ![target_id] =
              Append(@, NewComment(comment_id, target_id, author, content))]
       /\ audit_entries' = Append(audit_entries,
              log("comment_added", author, None, NoId))
       /\ Respond("add_comment", "none", {comment_id}, 200)
       /\ UNCHANGED <<settings, notification_service, unstarted, workflows, pc,
                      locals, approving, calls, approvals_store, now>>

\* GET /comments/{target_id}; the answer carries the ids of the comments
get_comments(target_id) ==
    /\ ops' = ops + 1
    /\ Respond("get_comments", "none",
               {comments[target_id][k].comment_id : k \in DOMAIN comments[target_id]},
               200)
    /\ UNCHANGED <<settings, notification_service, unstarted, workflows, pc, locals,
                   approving, calls, approvals_store, audit_entries, now, comments>>

\* edit_comment without the check of the author
edit_comment_AnyEditor(comment_id, new_content, editor) ==
    LET found == {tk \in CommentSlots : CommentAt(tk).comment_id = comment_id}
    IN /\ ops' = ops + 1
       /\ IF found = {}
          THEN /\ Respond("edit_comment", "none", {comment_id}, 404)
               /\ UNCHANGED comments
          ELSE LET tk == CHOOSE x \in found : TRUE
               IN /\ comments' = [comments EXCEPT ![tk[1]][tk[2]] =
                         [@ EXCEPT !.content = new_content, !.edited_at = now]]
                  /\ Respond("edit_comment", "none", {comment_id}, 200)
       /\ UNCHANGED <<settings, notification_service, unstarted, workflows, pc,
                      locals, approving, calls, approvals_store, audit_entries, now>>

\* PUT /comments/{comment_id}: AuditLogService.edit_comment returns None for
\* an unknown id and for an editor who is not the author, and the handler
\* answers 404 for None
edit_comment(comment_id, new_content, editor) ==
    LET found == {tk \in CommentSlots : CommentAt(tk).comment_id = comment_id}
    IN /\ ops' = ops + 1
       /\ IF found = {} \/ (\E tk \in found : CommentAt(tk).author # editor)
          THEN /\ Respond("edit_comment", "none", {comment_id}, 404)
               /\ UNCHANGED comments
          ELSE LET tk == CHOOSE x \in found : TRUE
               IN /\ comments' = [comments EXCEPT ![tk[1]][tk[2]] =
                         [@ EXCEPT !.content = new_content, !.edited_at = now]]
                  /\ Respond("edit_comment", "none", {comment_id}, 200)
       /\ UNCHANGED <<settings, notification_service, unstarted, workflows, pc,
                      locals, approving, calls, approvals_store, audit_entries, now>>

\* sorted(entries, key=lambda e: e.timestamp, reverse=reverse) over entry
\* positions: the sort is stable, so entries of equal timestamp keep the
\* order they have in ids, in both directions
RECURSIVE sorted(_, _)
sorted(ids, reverse) ==
    IF ids = <<>>
    THEN <<>>
    ELSE LET n == Len(ids)
             done == sorted(SubSeq(ids, 1, n - 1), reverse)
             x == ids[n]
             p == Cardinality({i \in 1..Len(done) :
                     IF reverse
                     THEN audit_entries[done[i]].timestamp >= audit_entries[x].timestamp
                     ELSE audit_entries[done[i]].timestamp <= audit_entries[x].timestamp})
         IN SubSeq(done, 1, p) \o <<x>> \o SubSeq(done, p + 1, Len(done))

\* lst[:limit]: a negative limit counts from the end
Slice(lst, limit) ==
    IF limit >= 0
    THEN SubSeq(lst, 1, IF limit < Len(lst) THEN limit ELSE Len(lst))
    ELSE SubSeq(lst, 1, IF Len(lst) + limit > 0 THEN Len(lst) + limit ELSE 0)

\* the positions of self._entries, in insertion order
EntryIds == [i \in 1..Len(audit_entries) |-> i]

\* the filters of get_entries: a filter that is None or empty is not applied
Selected(i, workflow_id, vulnerability_id, action, actor, since) ==
    LET e == audit_entries[i]
    IN /\ workflow_id \notin {None, ""} => e.workflow_id = workflow_id
       /\ vulnerability_id \notin {None, ""} => e.vulnerability_id = vulnerability_id
       /\ action # None => e.action = action
       /\ actor \notin {None, ""} => e.actor = actor
       /\ since # NoTime => e.timestamp >= since

\* AuditLogService.get_entries
get_entries(workflow_id, vulnerability_id, action, actor, since, limit) ==
    LET entries == SelectSeq(EntryIds, LAMBDA i :
                       Selected(i, workflow_id, vulnerability_id, action, actor, since))
    IN Slice(sorted(entries, TRUE), limit)

\* GET /audit: an action name that is no AuditAction leaves action_enum None
get_audit_log(workflow_id, vulnerability_id, action, actor, limit) ==
    LET action_enum == IF action \in AuditActions THEN action ELSE None
    IN /\ ops' = ops + 1
       /\ Respond("get_audit_log", "none",
                  get_entries(workflow_id, vulnerability_id, action_enum, actor,
                              NoTime, limit), 200)
       /\ UNCHANGED <<settings, notification_service, unstarted, workflows, pc,
                      locals, approving, calls, approvals_store, audit_entries, now,
                      comments>>

\* get_workflow_timeline that answers in the order of insertion
timeline_Unsorted(workflow_id) ==
    SelectSeq(EntryIds, LAMBDA i : audit_entries[i].workflow_id = workflow_id)

\* AuditLogService.get_workflow_timeline
timeline(workflow_id) ==
    sorted(SelectSeq(EntryIds, LAMBDA i : audit_entries[i].workflow_id = workflow_id),
           FALSE)

\* GET /audit/workflow/{workflow_id}/timeline; the answer carries the timeline
get_workflow_timeline(workflow_id) ==
    /\ ops' = ops + 1
    /\ Respond("get_workflow_timeline", workflow_id, timeline(workflow_id), 200)
    /\ UNCHANGED <<settings, notification_service, unstarted, workflows, pc, locals,
                   approving, calls, approvals_store, audit_entries, now, comments>>

\* GET /audit/export: AuditLogService.export_entries serialises
\* get_entries(workflow_id=workflow_id, limit=10000)
export_audit_log(workflow_id) ==
    /\ ops' = ops + 1
    /\ Respond("export_audit_log", workflow_id,
               get_entries(workflow_id, None, None, None, NoTime, 10000), 200)
    /\ UNCHANGED <<settings, notification_service, unstarted, workflows, pc, locals,
                   approving, calls, approvals_store, audit_entries, now, comments>>

\* the wall clock of the host reads t at the next call
SetClock(t) ==
    /\ now # t
    /\ now' = t
    /\ UNCHANGED <<settings, notification_service, unstarted, workflows, pc, locals,
                   approving, calls, response, ops, approvals_store, audit_entries,
                   comments>>

----------------------------------------------------------------------------
(* Specification *)

\* NotificationService(): TEAMS_WEBHOOK_URL set or not, no POST in flight,
\* nothing logged about a delivery
NotificationService(teams_webhook_url) ==
    [teams_webhook_url |-> teams_webhook_url, sending |-> <<>>, teams_log |-> "none"]

Settings == [require_approval_p0_p1 : BOOLEAN,
             auto_remediate_p2 : BOOLEAN,
             auto_remediate_p3_p4 : BOOLEAN]

\* the defaults of class Settings
DefaultSettings == [require_approval_p0_p1 |-> TRUE,
                    auto_remediate_p2 |-> FALSE,
                    auto_remediate_p3_p4 |-> TRUE]

Init ==
    /\ settings \in Settings
    /\ unstarted = StartRequests
    /\ workflows = <<>>
    /\ pc = [w \in AllIds |-> "none"]
    /\ locals = [w \in AllIds |-> NoLocals]
    /\ approving = [w \in AllIds |-> <<>>]
    /\ calls = [w \in AllIds |-> <<>>]
    /\ response = [seq |-> 0, op |-> "none", wf |-> "none", arg |-> {}, code |-> 0]
    /\ ops = 0
    /\ approvals_store = <<>>
    /\ audit_entries = <<>>
    /\ notification_service = NotificationService(FALSE)
    /\ now = 0
    /\ comments = NoComments

\* the workflow ids clients name: those started and those about to be
Known == unstarted \cup DOMAIN workflows

Next ==
    \/ \E w \in AllIds, auto \in BOOLEAN : StartWorkflow(w, auto)
    \/ \E w \in AllIds : ExecuteScan(w)
    \/ \E w \in AllIds, r \in TriggerReplies : TriggerScanReturn(w, r)
    \/ \E w \in AllIds, r \in PollReplies : PollReturn(w, r)
    \/ \E w \in DOMAIN workflows :
          \E r \in AssessReplies(workflows[w].steps["scan"].output_data.vulnerabilities) :
              AssessReturn(w, r)
    \/ \E w \in DOMAIN workflows :
          \E r \in RemediateReplies(locals[w].to_auto_remediate) : RemediateReturn(w, r)
    \/ \E w \in Known : CancelWorkflow(w)
    \/ \E w \in Known : RejectRemediation(w)
    \/ \E w \in Known, ids \in ApproveNames : ApproveRemediation(w, ids)
    \/ \E w \in AllIds, i \in 1..MaxOps : ApproveReturn(w, i)
    \/ \E w \in Known, ids \in ApprovalScopes :
          ops < MaxOps /\ create_approval(w, ids, DefaultExpiry)

Spec == Init /\ [][Next]_vars

----------------------------------------------------------------------------
(* Two execution units.  Both start requests are made, with auto_remediate *)
(* set and scans of at most one vulnerability, and only the engine runs:   *)
(* asyncio.create_task gives every workflow its own task, and the event    *)
(* loop runs a task whose awaited collaborator call has returned.          *)

\* one step of the task _execute_workflow of w
ExecutionUnit(w) ==
    \/ ExecuteScan(w)
    \/ \E r \in TriggerReplies : TriggerScanReturn(w, r)
    \/ \E r \in {p \in PollReplies : Len(p.vulnerabilities) <= 1} : PollReturn(w, r)
    \/ /\ w \in DOMAIN workflows
       /\ \E r \in AssessReplies(workflows[w].steps["scan"].output_data.vulnerabilities) :
              AssessReturn(w, r)
    \/ /\ w \in DOMAIN workflows
       /\ \E r \in RemediateReplies(locals[w].to_auto_remediate) : RemediateReturn(w, r)

InitTwo ==
    /\ settings = DefaultSettings
    /\ unstarted = AllIds
    /\ workflows = <<>>
    /\ pc = [w \in AllIds |-> "none"]
    /\ locals = [w \in AllIds |-> NoLocals]
    /\ approving = [w \in AllIds |-> <<>>]
    /\ calls = [w \in AllIds |-> <<>>]
    /\ response = [seq |-> 0, op |-> "none", wf |-> "none", arg |-> {}, code |-> 0]
    /\ ops = 0
    /\ approvals_store = <<>>
    /\ audit_entries = <<>>
    /\ notification_service = NotificationService(FALSE)
    /\ now = 0
    /\ comments = NoComments

NextTwo ==
    \/ \E w \in AllIds : StartWorkflow(w, TRUE)
    \/ \E w \in AllIds : ExecutionUnit(w)

\* every collaborator request returns and every task is scheduled
SpecTwo ==
    /\ InitTwo
    /\ [][NextTwo]_vars
    /\ \A w \in AllIds : WF_vars(ExecutionUnit(w))


----------------------------------------------------------------------------
(* The approval API on its own.  No workflow is started; clients create    *)
(* approval requests (create_approval does not look the workflow up),      *)
(* decide them, read them, and time passes.                                *)

InitHitl ==
    /\ settings = DefaultSettings
    /\ unstarted = {}
    /\ workflows = <<>>
    /\ pc = [w \in AllIds |-> "none"]
    /\ locals = [w \in AllIds |-> NoLocals]
    /\ approving = [w \in AllIds |-> <<>>]
    /\ calls = [w \in AllIds |-> <<>>]
    /\ response = [seq |-> 0, op |-> "none", wf |-> "none", arg |-> {}, code |-> 0]
    /\ ops = 0
    /\ approvals_store = <<>>
    /\ audit_entries = <<>>
    /\ notification_service \in {NotificationService(url) : url \in BOOLEAN}
    /\ now = 0
    /\ comments = NoComments

NextHitl ==
    \/ \E w \in StartRequests, ids \in ApprovalScopes, h \in ExpiryHours :
          /\ ops < MaxCalls
          /\ Len(approvals_store) < MaxApprovals
          /\ create_approval(w, ids, h)
    \/ \E i \in 1..MaxApprovals, delivered \in BOOLEAN : NotificationReturn(i, delivered)
    \/ \E a \in 1..MaxApprovals, d \in Decisions :
          ops < MaxCalls /\ decide_approval(a, d)
    \/ ops < MaxCalls /\ get_pending_approvals
    \/ \E a \in 1..MaxApprovals : ops < MaxCalls /\ get_approval(a)
    \/ \E status \in {PENDING_APPROVAL, EXPIRED} :
          ops < MaxCalls /\ list_approvals(status)
    \/ Tick

SpecHitl == InitHitl /\ [][NextHitl]_vars

----------------------------------------------------------------------------
(* One execution unit and the approval API: a workflow runs under the      *)
(* default policy while clients create and decide approval requests for    *)
(* it.  Every awaited collaborator request returns.                        *)

InitResume ==
    /\ settings = DefaultSettings
    /\ unstarted = StartRequests
    /\ workflows = <<>>
    /\ pc = [w \in AllIds |-> "none"]
    /\ locals = [w \in AllIds |-> NoLocals]
    /\ approving = [w \in AllIds |-> <<>>]
    /\ calls = [w \in AllIds |-> <<>>]
    /\ response = [seq |-> 0, op |-> "none", wf |-> "none", arg |-> {}, code |-> 0]
    /\ ops = 0
    /\ approvals_store = <<>>
    /\ audit_entries = <<>>
    /\ notification_service = NotificationService(FALSE)
    /\ now = 0
    /\ comments = NoComments

NextResume ==
    \/ \E w \in AllIds, auto \in BOOLEAN : StartWorkflow(w, auto)
    \/ \E w \in AllIds : ExecutionUnit(w)
    \/ \E w \in Known, ids \in ApprovalScopes :
          ops < MaxOps /\ create_approval(w, ids, DefaultExpiry)
    \/ \E a \in 1..MaxOps, d \in Decisions :
          ops < MaxOps /\ decide_approval(a, d)

SpecResume ==
    /\ InitResume
    /\ [][NextResume]_vars
    /\ \A w \in AllIds : WF_vars(ExecutionUnit(w))

----------------------------------------------------------------------------
(* The audit log and the comments behind the HITL API: approvals are       *)
(* created and decided, comments added and edited, the log queried, and    *)
(* the wall clock is set between the calls.                                *)

InitAudit ==
    /\ settings = DefaultSettings
    /\ unstarted = {}
    /\ workflows = <<>>
    /\ pc = [w \in AllIds |-> "none"]
    /\ locals = [w \in AllIds |-> NoLocals]
    /\ approving = [w \in AllIds |-> <<>>]
    /\ calls = [w \in AllIds |-> <<>>]
    /\ response = [seq |-> 0, op |-> "none", wf |-> "none", arg |-> {}, code |-> 0]
    /\ ops = 0
    /\ approvals_store = <<>>
    /\ audit_entries = <<>>
    /\ notification_service = NotificationService(FALSE)
    /\ now = 0
    /\ comments = NoComments

NextAudit ==
    \/ \E w \in AllIds, ids \in ApprovalScopes :
          /\ ops < MaxCalls
          /\ Len(approvals_store) < MaxApprovals
          /\ create_approval(w, ids, DefaultExpiry)
    \/ \E i \in 1..MaxApprovals, d \in Decisions : ops < MaxCalls /\ decide_approval(i, d)
    \/ \E t \in Targets, a \in Authors : ops < MaxCalls /\ add_comment(t, a, Content)
    \/ \E c \in 1..MaxCalls, a \in Authors :
          ops < MaxCalls /\ edit_comment(c, NewContent, a)
    \/ \E t \in Targets : ops < MaxCalls /\ get_comments(t)
    \/ \E w \in AllIds \cup {None}, v \in VulnerabilityNames, action \in ActionNames,
          actor \in ActorNames, limit \in Limits :
          ops < MaxCalls /\ get_audit_log(w, v, action, actor, limit)
    \/ \E w \in AllIds : ops < MaxCalls /\ get_workflow_timeline(w)
    \/ \E w \in AllIds \cup {None} : ops < MaxCalls /\ export_audit_log(w)
    \/ \E t \in 0..MaxClock : SetClock(t)

SpecAudit == InitAudit /\ [][NextAudit]_vars

----------------------------------------------------------------------------
(* Properties *)

Status(w) == workflows[w].status

StepStatus(w, s) == workflows[w].steps[s].status

\* positions in calls[w] of the requests sent to collaborator `to` by `by`
Requests(w, to, by) ==
    {i \in 1..Len(calls[w]) : calls[w][i].to = to /\ calls[w][i].by = by}

\* this step is a run of w's execution unit
EngineStep(w) ==
    \/ pc'[w] # pc[w]
    \/ locals'[w] # locals[w]

\* this step answers a control-plane call `op` on w
Answers(op, w) ==
    /\ response'.seq # response.seq
    /\ response'.op = op
    /\ response'.wf = w

\* The requests of the execution unit follow the stage order: assess is
\* requested only with the scan step COMPLETED, remediation only with the
\* assess step COMPLETED.
RequestOrder ==
    \A w \in DOMAIN workflows :
        /\ Requests(w, "assess", "engine") # {} => StepStatus(w, "scan") = COMPLETED
        /\ Requests(w, "remediate", "engine") # {} => StepStatus(w, "assess") = COMPLETED

\* C1: stages run in the order scan, assess, decide/remediate, complete: the
\* assess collaborator is called only after the scan step is COMPLETED, the
\* execution unit calls the remediate collaborator only after the assess step
\* is COMPLETED, and the workflow is COMPLETED only after those stages (scan
\* and assess COMPLETED, execution unit past the decision stage).
C1_StageOrder ==
    /\ RequestOrder
    /\ \A w \in DOMAIN workflows :
          Status(w) = COMPLETED =>
              /\ StepStatus(w, "scan") = COMPLETED
              /\ StepStatus(w, "assess") = COMPLETED
              /\ pc[w] = "done"

\* C2: FAILED and CANCELLED are terminal: once the status is FAILED or
\* CANCELLED, no step of the execution unit and no approve / reject call
\* changes it.
C2_TerminalStatus ==
    [][\A w \in DOMAIN workflows :
          (/\ Status(w) \in {FAILED, CANCELLED}
           /\ EngineStep(w) \/ Answers("approve", w) \/ Answers("reject", w))
          => workflows'[w].status = Status(w)]_vars

\* C3: after a cancel marked a running workflow CANCELLED, the execution unit
\* issues no further collaborator request for it, turns no step COMPLETED
\* from a reply that was in flight, and leaves the status CANCELLED.
C3_CancelStopsEngine ==
    [][\A w \in DOMAIN workflows :
          (Status(w) = CANCELLED /\ EngineStep(w))
          => /\ calls'[w] = calls[w]
             /\ workflows'[w].status = CANCELLED
             /\ \A s \in DOMAIN workflows[w].steps :
                   workflows'[w].steps[s].status = COMPLETED
                   => StepStatus(w, s) = COMPLETED]_vars

\* the assessments stored in w's assess step
AssessmentsOf(w) == workflows[w].steps["assess"].output_data.assessments

\* vulnerability v of workflow w was assessed with a priority in ps
AssessedIn(w, v, ps) ==
    \E k \in 1..Len(AssessmentsOf(w)) :
        /\ AssessmentsOf(w)[k].vulnerability_id = v
        /\ AssessmentsOf(w)[k].priority \in ps

\* C4: with require_approval_p0_p1 set, a vulnerability assessed P0 or P1 is
\* in no batch the execution unit submits to the remediate collaborator; a
\* remediation request that carries it comes from an approve call that names
\* it.
C4_P0P1NeverAutoRemediated ==
    settings.require_approval_p0_p1 =>
        \A w \in DOMAIN workflows :
            \A i \in 1..Len(calls[w]) :
                LET r == calls[w][i]
                IN r.to = "remediate" =>
                     \A j \in 1..Len(r.vulns) :
                         AssessedIn(w, r.vulns[j], {"P0", "P1"})
                         => r.by = "approve" /\ r.vulns[j] \in r.named

\* a workflow whose execution unit auto-remediated one finding and whose
\* P0/P1 finding reached the remediator through an approval
C4_Witness ==
    /\ settings.require_approval_p0_p1
    /\ \E w \in DOMAIN workflows :
          /\ Requests(w, "remediate", "engine") # {}
          /\ \E i \in Requests(w, "remediate", "approve") :
                \E j \in 1..Len(calls[w][i].vulns) :
                    AssessedIn(w, calls[w][i].vulns[j], {"P0", "P1"})

\* this step is the decision step of w's execution unit writing its result
\* into the remediate step
DecisionStep(w) ==
    /\ EngineStep(w)
    /\ workflows'[w].steps["remediate"] # workflows[w].steps["remediate"]

\* ids of the assessments of w that the policy routes to approval
RoutedToApproval(w) ==
    {AssessmentsOf(w)[k].vulnerability_id : k \in
        {k \in 1..Len(AssessmentsOf(w)) :
            Route(AssessmentsOf(w)[k].priority, workflows[w].auto_remediate)
                = "approval"}}

\* C5: when the decision step routes at least one vulnerability to approval
\* it creates exactly one approval request (pending, referencing the
\* workflow, listing every routed id) and the workflow becomes
\* AWAITING_APPROVAL; when it routes none it creates no approval request and
\* the workflow becomes COMPLETED.
C5_OneApprovalRequest ==
    [][\A w \in DOMAIN workflows :
          DecisionStep(w) =>
              IF RoutedToApproval(w)' # {}
              THEN /\ workflows'[w].status = AWAITING_APPROVAL
                   /\ Len(approvals_store') = Len(approvals_store) + 1
                   /\ LET a == approvals_store'[Len(approvals_store')]
                      IN /\ a.workflow_id = w
                         /\ a.status = "pending"
                         /\ RoutedToApproval(w)' \subseteq
                              {a.vulnerability_ids[i] :
                                  i \in 1..Len(a.vulnerability_ids)}
              ELSE /\ workflows'[w].status = COMPLETED
                   /\ approvals_store' = approvals_store]_vars

\* the half of C5 that needs no approval request: a decision step that
\* routes nothing to approval leaves the approval store alone and completes
\* the workflow, one that routes something makes it AWAITING_APPROVAL
DecisionOutcome ==
    [][\A w \in DOMAIN workflows :
          DecisionStep(w) =>
              /\ approvals_store' = approvals_store
              /\ workflows'[w].status =
                    IF RoutedToApproval(w)' # {} THEN AWAITING_APPROVAL
                    ELSE COMPLETED]_vars

\* an approve call on w begins in this step
ApproveCalled(w) ==
    /\ ops' = ops + 1
    /\ \/ Len(approving'[w]) > Len(approving[w])
       \/ Answers("approve", w)

\* C6: of two approve calls for the same workflow, one after the other or
\* overlapping, the second fails with InvalidState (HTTP 400) and the
\* remediate collaborator receives one batch for the approval: once an
\* approval has submitted its batch, a further approve call is answered 400
\* and submits nothing.
C6_SecondApproveRejected ==
    [][\A w \in DOMAIN workflows :
          (ApproveCalled(w) /\ Requests(w, "remediate", "approve") # {})
          => /\ Answers("approve", w)
             /\ response'.code = 400
             /\ calls' = calls]_vars

\* C7: approve and reject alike answer NotFound (404) for an unknown
\* workflow and InvalidState (400) for a workflow that is not awaiting
\* approval, and a call that fails changes no workflow.
C7_ResolveErrors ==
    [][\A w \in AllIds :
          (ops' = ops + 1 /\ (Answers("approve", w) \/ Answers("reject", w)))
          => /\ w \notin DOMAIN workflows
                => response'.code = 404 /\ workflows' = workflows
             /\ (w \in DOMAIN workflows /\ Status(w) # AWAITING_APPROVAL)
                => response'.code = 400 /\ workflows' = workflows]_vars

\* the ids named by the approve call that begins in this step
NamedNow(w) ==
    IF Len(approving'[w]) > Len(approving[w])
    THEN approving'[w][Len(approving'[w])]
    ELSE response'.arg

\* the set of elements of a sequence
Range(seq) == {seq[i] : i \in 1..Len(seq)}

\* an approve call on w returns from remediate_batch in this step
ApproveResumed(w) == Len(approving'[w]) < Len(approving[w])

\* what approve and reject have in common on a workflow awaiting approval:
\* a reject completes it and submits nothing, an approve that comes back
\* from the remediator completes it, and both leave awaiting_approval at 0
ResolveCompletes(w) ==
    /\ (Status(w) = AWAITING_APPROVAL /\ Answers("reject", w))
       => /\ workflows'[w].status = COMPLETED
          /\ workflows'[w].awaiting_approval = 0
          /\ calls' = calls
    /\ ApproveResumed(w)
       => /\ Answers("approve", w)
          /\ response'.code = 200
          /\ workflows'[w].status = COMPLETED
          /\ workflows'[w].awaiting_approval = 0
          /\ calls' = calls

\* C8 as claimed: on a workflow in AWAITING_APPROVAL an approve submits
\* exactly the named vulnerabilities to the remediate collaborator as one
\* batch and the workflow is marked COMPLETED; a reject marks it COMPLETED
\* and submits nothing; awaiting_approval is 0 afterwards.
C8_ExactlyNamed ==
    [][\A w \in DOMAIN workflows :
          /\ ResolveCompletes(w)
          /\ (Status(w) = AWAITING_APPROVAL /\ ApproveCalled(w))
             => /\ Len(calls'[w]) = Len(calls[w]) + 1
                /\ LET r == calls'[w][Len(calls'[w])]
                   IN /\ r.to = "remediate"
                      /\ r.by = "approve"
                      /\ Range(r.vulns) = NamedNow(w)]_vars

\* C8 amended: the batch of an approve is the assessed vulnerabilities of
\* the workflow that the call names, in assessment order; it is submitted as
\* one request when it is not empty, and when it is empty nothing is
\* submitted and the workflow is completed at once.
C8_NamedAndAssessed ==
    [][\A w \in DOMAIN workflows :
          /\ ResolveCompletes(w)
          /\ (Status(w) = AWAITING_APPROVAL /\ ApproveCalled(w))
             => LET assessed == {k \in 1..Len(AssessmentsOf(w)) :
                                   AssessmentsOf(w)[k].vulnerability_id
                                       \in NamedNow(w)}
                IN IF assessed # {}
                   THEN /\ Len(calls'[w]) = Len(calls[w]) + 1
                        /\ LET r == calls'[w][Len(calls'[w])]
                           IN /\ r.to = "remediate"
                              /\ r.by = "approve"
                              /\ Len(r.vulns) = Cardinality(assessed)
                              /\ \A k \in assessed :
                                    r.vulns[Cardinality({j \in assessed : j <= k})]
                                        = AssessmentsOf(w)[k].vulnerability_id
                        /\ workflows' = workflows
                   ELSE /\ calls' = calls
                        /\ Answers("approve", w)
                        /\ response'.code = 200
                        /\ workflows'[w].status = COMPLETED
                        /\ workflows'[w].awaiting_approval = 0]_vars

\* an approval that named one of two assessed vulnerabilities has submitted
\* that one alone and completed the workflow
C8_Witness ==
    \E w \in DOMAIN workflows :
        /\ Status(w) = COMPLETED
        /\ workflows[w].awaiting_approval = 0
        /\ response.op = "approve" /\ response.wf = w /\ response.code = 200
        /\ Len(AssessmentsOf(w)) = 2
        /\ \E i \in Requests(w, "remediate", "approve") :
              calls[w][i].vulns = <<"v1">> /\ calls[w][i].named = {"v1"}

\* C9: a workflow in AWAITING_APPROVAL has no execution unit left (it ended
\* when the status was set and takes no further step), nothing but an
\* approve call sends a request for it, and it becomes COMPLETED only in the
\* step that answers an approve or reject call for it.
C9_ResumedOnlyByResolve ==
    [][\A w \in DOMAIN workflows :
          Status(w) = AWAITING_APPROVAL
          => /\ pc[w] = "done"
             /\ ~EngineStep(w)
             /\ calls'[w] # calls[w] => ApproveCalled(w)
             /\ workflows'[w] # workflows[w]
                => \E op \in {"approve", "reject", "cancel"} : Answers(op, w)
             /\ workflows'[w].status = COMPLETED
                => Answers("approve", w) \/ Answers("reject", w)]_vars

\* a workflow that was handed to approval and then completed by a reject
C9_Witness ==
    \E w \in DOMAIN workflows :
        /\ StepStatus(w, "remediate") = AWAITING_APPROVAL
        /\ Status(w) = COMPLETED
        /\ pc[w] = "done"
        /\ response.op = "reject" /\ response.wf = w
        /\ Requests(w, "remediate", "approve") = {}

\* C10: mutation of one workflow is serialized, so that the outcome of
\* concurrent approve, reject and cancel calls is the outcome of some
\* sequential order and no call overwrites another from a stale view: an
\* approve call that comes back from the remediator and writes COMPLETED
\* still finds the workflow AWAITING_APPROVAL, as it was when the call
\* checked it.
C10_NoStaleWrite ==
    [][\A w \in DOMAIN workflows :
          ApproveResumed(w) => Status(w) = AWAITING_APPROVAL]_vars

----------------------------------------------------------------------------
(* Step and status invariants *)

\* C11: read in the order scan, assess, decide, remediate, complete, the
\* step statuses are COMPLETED steps, then at most one FAILED or in-progress
\* step, then PENDING steps: a step that left PENDING has only COMPLETED
\* steps before it.
C11_StepPrefix ==
    \A w \in DOMAIN workflows :
        \A i, j \in 1..Len(StepIds) :
            (i < j /\ StepStatus(w, StepIds[j]) # PENDING)
            => StepStatus(w, StepIds[i]) = COMPLETED

\* C12: the status agrees with the furthest completed step: ASSESSING has
\* scan COMPLETED, REMEDIATING and AWAITING_APPROVAL have scan and assess
\* COMPLETED, COMPLETED has all five steps COMPLETED.
C12_StatusMatchesSteps ==
    \A w \in DOMAIN workflows :
        /\ Status(w) = ASSESSING => StepStatus(w, "scan") = COMPLETED
        /\ Status(w) \in {REMEDIATING, AWAITING_APPROVAL}
           => StepStatus(w, "scan") = COMPLETED /\ StepStatus(w, "assess") = COMPLETED
        /\ Status(w) = COMPLETED
           => \A i \in 1..Len(StepIds) : StepStatus(w, StepIds[i]) = COMPLETED

\* C13: a step status only moves forward: a step that is COMPLETED or FAILED
\* keeps that status in every later step of the system, and no step goes
\* back to PENDING.
C13_StepsOnlyAdvance ==
    [][\A w \in DOMAIN workflows :
          \A s \in DOMAIN workflows[w].steps :
              /\ StepStatus(w, s) \in {COMPLETED, FAILED}
                 => workflows'[w].steps[s].status = StepStatus(w, s)
              /\ workflows'[w].steps[s].status = PENDING
                 => StepStatus(w, s) = PENDING]_vars

\* a workflow with a COMPLETED scan step and a FAILED assess step that was
\* cancelled after the failure
C13_Witness ==
    \E w \in DOMAIN workflows :
        /\ StepStatus(w, "scan") = COMPLETED
        /\ StepStatus(w, "assess") = FAILED
        /\ Status(w) = CANCELLED
        /\ pc[w] = "done"

\* this step handles a collaborator reply that reports an error or the end
\* of the polling time: the reply to trigger_scan or assess_vulnerabilities
\* that fails the step, a get_scan_results reply without a status, or the
\* poll timeout
ErrorHandled(w) ==
    /\ EngineStep(w)
    /\ \/ \E s \in {"scan", "assess"} :
             StepStatus(w, s) # FAILED /\ workflows'[w].steps[s].status = FAILED
       \/ pc[w] = "poll_scan_completion" /\ locals'[w].status = "unknown"

\* the requests of the execution unit, stage by stage: one scan trigger, at
\* most one assess request, at most one remediation batch, one decision
StagesOnce ==
    [][\A w \in DOMAIN workflows' :
          /\ Cardinality(Requests(w, "scan", "engine")') <= 1
          /\ pc'[w] \notin {"created", "none"}
             => Cardinality(Requests(w, "scan", "engine")') = 1
          /\ Cardinality(Requests(w, "assess", "engine")') <= 1
          /\ Cardinality(Requests(w, "remediate", "engine")') <= 1
          /\ (w \in DOMAIN workflows /\ DecisionStep(w))
             => StepStatus(w, "remediate") = PENDING]_vars

\* C14: each stage is driven once per workflow: one scan trigger, at most
\* one assess request, at most one remediation batch of the decision step,
\* one evaluation of the decision, and no request of the execution unit
\* after a collaborator error or a poll timeout.
C14_StagesOnceNoRetry ==
    /\ StagesOnce
    /\ [][\A w \in DOMAIN workflows :
             ErrorHandled(w) => calls'[w] = calls[w]]_vars

\* this step creates workflow w
Created(w) == w \notin DOMAIN workflows /\ w \in DOMAIN workflows'

\* C15: StartWorkflow stores a workflow that is PENDING and has exactly the
\* five steps scan, assess, decide, remediate, complete, in that order and
\* all PENDING, and answers with it (status PENDING) before its execution
\* unit has run or any collaborator was called.
C15_StartWorkflow ==
    [][\A w \in AllIds :
          Created(w) =>
              /\ workflows'[w].status = PENDING
              /\ StepIds = <<"scan", "assess", "decide", "remediate", "complete">>
              /\ DOMAIN workflows'[w].steps = Range(StepIds)
              /\ \A s \in DOMAIN workflows'[w].steps :
                    /\ workflows'[w].steps[s].status = PENDING
                    /\ ~workflows'[w].steps[s].output_data.set
              /\ workflows'[w].current_step = "scan"
              /\ Answers("start", w) /\ response'.code = 200
              /\ pc'[w] = "created"
              /\ calls' = calls]_vars

\* a workflow just started: stored, PENDING, answered, its execution unit
\* scheduled and not yet run
C15_Witness ==
    \E w \in DOMAIN workflows :
        /\ response.op = "start" /\ response.wf = w
        /\ Status(w) = PENDING
        /\ pc[w] = "created"
        /\ calls[w] = <<>>

\* the scan of w is COMPLETED and found nothing
ZeroFindings(w) ==
    /\ StepStatus(w, "scan") = COMPLETED
    /\ workflows[w].steps["scan"].output_data.vulnerabilities = <<>>

\* C16: when the scan completes with zero vulnerabilities the same run of
\* the execution unit marks the assess step COMPLETED with no assessments,
\* calls no collaborator, creates no approval request and completes the
\* workflow; such a workflow never has an assess or remediation request and
\* is never AWAITING_APPROVAL.
C16_ZeroVulnerabilities ==
    [][\A w \in DOMAIN workflows :
          /\ (EngineStep(w) /\ ~ZeroFindings(w) /\ ZeroFindings(w)')
             => /\ workflows'[w].status = COMPLETED
                /\ workflows'[w].total_vulnerabilities = 0
                /\ workflows'[w].steps["assess"].status = COMPLETED
                /\ workflows'[w].steps["assess"].output_data.assessments = <<>>
                /\ pc'[w] = "done"
                /\ calls'[w] = calls[w]
                /\ approvals_store' = approvals_store
          /\ ZeroFindings(w)'
             => /\ Requests(w, "assess", "engine")' = {}
                /\ Requests(w, "remediate", "engine")' = {}
                /\ Requests(w, "remediate", "approve")' = {}
                /\ workflows'[w].status # AWAITING_APPROVAL
                /\ workflows'[w].awaiting_approval = 0]_vars

\* a workflow completed by its execution unit after an empty scan
C16_Witness ==
    \E w \in DOMAIN workflows :
        /\ ZeroFindings(w)
        /\ Status(w) = COMPLETED
        /\ StepStatus(w, "assess") = COMPLETED
        /\ pc[w] = "done"
        /\ workflows[w].completed_at > 0

\* the policy table as the decision step is specified: where a priority
\* label goes under the settings and the workflow's autoRemediate flag
\* ("other" where the table names no destination)
PolicyTable(priority, autoRemediate) ==
    CASE priority \in {"P0", "P1"} ->
            IF settings.require_approval_p0_p1 THEN "approval" ELSE "auto"
      [] priority = "P2" ->
            IF settings.auto_remediate_p2 THEN "auto" ELSE "other"
      [] priority \in {"P3", "P4"} ->
            IF settings.auto_remediate_p3_p4 /\ autoRemediate THEN "auto" ELSE "other"

\* positions of the assessments stored for w that PolicyTable sends to `to`
TableSends(w, to) ==
    {k \in 1..Len(AssessmentsOf(w)) :
        PolicyTable(AssessmentsOf(w)[k].priority, workflows[w].auto_remediate) = to}

\* this step evaluates the decision for w: the assess reply is stored and
\* carries a priority label for every assessment
Decides(w) ==
    /\ EngineStep(w)
    /\ pc[w] = "assess_vulnerabilities"
    /\ workflows'[w].steps["assess"].status = COMPLETED
    /\ \A k \in 1..Len(AssessmentsOf(w)') : AssessmentsOf(w)'[k].priority \in Priorities

\* C17: the decision routes every assessment by its priority label, the
\* three policy flags and the workflow's autoRemediate flag: the batch sent
\* to the remediator is exactly the assessments the table auto-remediates
\* (in assessment order, no request when there are none), every P0/P1 held
\* back by require_approval_p0_p1 waits for approval, and nothing is in both
\* lists.
C17_DecisionTable ==
    [][\A w \in DOMAIN workflows :
          Decides(w) =>
              LET A == AssessmentsOf(w)'
                  auto == TableSends(w, "auto")'
                  held == TableSends(w, "approval")'
                  waiting == Range(Ids(locals'[w].to_await_approval))
              IN /\ IF auto = {}
                    THEN /\ calls'[w] = calls[w]
                         /\ workflows'[w].awaiting_approval >= Cardinality(held)
                         /\ held # {} => workflows'[w].status = AWAITING_APPROVAL
                    ELSE /\ Len(calls'[w]) = Len(calls[w]) + 1
                         /\ LET r == calls'[w][Len(calls'[w])]
                            IN /\ r.to = "remediate" /\ r.by = "engine"
                               /\ Len(r.vulns) = Cardinality(auto)
                               /\ \A k \in auto :
                                     r.vulns[Cardinality({j \in auto : j <= k})]
                                         = A[k].vulnerability_id
                               /\ Range(r.vulns) \cap waiting = {}
                         /\ {A[k].vulnerability_id : k \in held} \subseteq waiting]_vars

\* a decision that sent one assessment to the remediator and kept another
\* for approval, for a workflow started without autoRemediate
C17_Witness ==
    \E w \in DOMAIN workflows :
        /\ pc[w] = "remediate_batch"
        /\ ~workflows[w].auto_remediate
        /\ Len(locals[w].to_auto_remediate) = 1
        /\ Len(locals[w].to_await_approval) = 1
        /\ Requests(w, "remediate", "engine") # {}

\* the scenario of C18: w was started with autoRemediate, its scan found one
\* vulnerability, the assessment rated it P4, and the policy auto-remediates
\* P3/P4
OneP4(w) ==
    /\ settings.auto_remediate_p3_p4
    /\ workflows[w].auto_remediate
    /\ Len(AssessmentsOf(w)) = 1
    /\ AssessmentsOf(w)[1].priority = "P4"

\* the remediation batch of w's decision step returns without error in this
\* step (its batch id is recorded)
BatchSucceeds(w) ==
    /\ EngineStep(w)
    /\ pc[w] = "remediate_batch"
    /\ workflows'[w].remediation_ids = workflows[w].remediation_ids + 1

\* what the scenario of C18 leaves behind apart from the counter
OneP4Completes(w) ==
    /\ workflows'[w].status = COMPLETED
    /\ workflows'[w].awaiting_approval = 0
    /\ pc'[w] = "done"
    /\ calls'[w] = calls[w]
    /\ Cardinality(Requests(w, "remediate", "engine")) = 1
    /\ Requests(w, "remediate", "approve") = {}
    /\ approvals_store' = approvals_store

ScanFails(w) ==
    /\ EngineStep(w)
    /\ StepStatus(w, "scan") # FAILED
    /\ workflows'[w].steps["scan"].status = FAILED

\* a failed scan halts the workflow: it is marked FAILED and its execution
\* unit ends without a request; with the scan step FAILED there is no assess
\* or remediation request, the assess and remediate steps are PENDING and
\* the execution unit takes no further step
ScanFailureHalts ==
    [][\A w \in DOMAIN workflows :
          /\ ScanFails(w)
             => /\ workflows'[w].status = FAILED
                /\ pc'[w] = "done"
                /\ calls'[w] = calls[w]
          /\ StepStatus(w, "scan") = FAILED
             => /\ ~EngineStep(w)
                /\ Requests(w, "assess", "engine") = {}
                /\ Requests(w, "remediate", "engine") = {}
                /\ Requests(w, "remediate", "approve") = {}
                /\ StepStatus(w, "assess") = PENDING
                /\ StepStatus(w, "remediate") = PENDING]_vars

\* C19: when trigger_scan returns an error, the scanner reports the scan
\* failed or polling times out, the workflow ends FAILED with the scan step
\* FAILED and carrying a non-empty error message, no assess or remediation
\* request is issued and the assess and remediate steps stay PENDING.
C19_ScanFailure ==
    /\ ScanFailureHalts
    /\ [][\A w \in DOMAIN workflows :
             ScanFails(w) => workflows'[w].steps["scan"].error_message # ""]_vars

\* the assess request of w returns an error in this step
AssessFails(w) ==
    /\ EngineStep(w)
    /\ pc[w] = "assess_vulnerabilities"
    /\ workflows'[w].steps["assess"].status = FAILED

\* the remediation batch of w's decision step returns an error in this step
\* (no batch id is recorded)
BatchFails(w) ==
    /\ EngineStep(w)
    /\ pc[w] = "remediate_batch"
    /\ workflows'[w].remediation_ids = workflows[w].remediation_ids

\* an error of the assess collaborator is terminal: the workflow is FAILED,
\* the execution unit ends without another request, and it does not run the
\* decision
AssessErrorTerminal ==
    [][\A w \in DOMAIN workflows :
          AssessFails(w)
          => /\ workflows'[w].status = FAILED
             /\ pc'[w] = "done"
             /\ calls'[w] = calls[w]
             /\ workflows'[w].steps["remediate"].status = PENDING]_vars

\* C20: a collaborator error in the assessment stage, or in the remediation
\* batch that the decision step submits, is terminal: the workflow ends
\* FAILED, neither COMPLETED nor AWAITING_APPROVAL.
C20_CollaboratorErrorTerminal ==
    /\ AssessErrorTerminal
    /\ [][\A w \in DOMAIN workflows :
             BatchFails(w)
             => /\ workflows'[w].status = FAILED
                /\ pc'[w] = "done"]_vars

----------------------------------------------------------------------------
(* Properties of two execution units *)

\* workflow b is as it was after this step
Untouched(b) ==
    /\ pc'[b] = pc[b]
    /\ locals'[b] = locals[b]
    /\ calls'[b] = calls[b]
    /\ b \in DOMAIN workflows => b \in DOMAIN workflows' /\ workflows'[b] = workflows[b]

\* positions at which the task _execute_workflow has returned, and those
\* at which it is running
Returned == {"done"}

Running == {"created", "trigger_scan", "poll_scan_completion",
            "assess_vulnerabilities", "remediate_batch"}

\* C21: a failure or unhandled exception in the execution unit of workflow a
\* marks only a FAILED: every step taken for a leaves the object (status,
\* steps, counters), the position and the requests of every other workflow b
\* unchanged, and with a FAILED the execution unit of b still runs to its
\* own outcome.
C21_FailureIsolated ==
    /\ [][\A a, b \in AllIds : a # b /\ EngineStep(a) => Untouched(b)]_vars
    /\ \A a, b \in AllIds :
          (a # b /\ pc[a] = "done" /\ Status(a) = FAILED /\ pc[b] \in Running)
          ~> (pc[b] \in Returned)

\* w1 failed by an exception (no step is FAILED) and w2 completed later
C21_Witness ==
    /\ DOMAIN workflows = AllIds
    /\ Status("w1") = FAILED
    /\ \A s \in DOMAIN workflows["w1"].steps : StepStatus("w1", s) # FAILED
    /\ Status("w2") = COMPLETED
    /\ pc["w2"] = "done"
    /\ workflows["w2"].updated_at > workflows["w1"].updated_at

\* the polls a scan is given: the ceiling over the interval, rounded up
MaxPolls == (MaxWait + PollInterval - 1) \div PollInterval

Polls(w) == Cardinality(Requests(w, "poll", "engine"))

\* C22: every started execution unit terminates, provided each collaborator
\* request returns: a scan is polled at most ceiling/interval times, the
\* reply to the last poll ends the polling (with a timeout unless the scan
\* has completed or failed), and the unit returns with the workflow
\* COMPLETED, FAILED or AWAITING_APPROVAL.
C22_Terminates ==
    /\ [](\A w \in DOMAIN workflows : Polls(w) <= MaxPolls)
    /\ [][\A w \in DOMAIN workflows :
             (EngineStep(w) /\ pc[w] = "poll_scan_completion" /\ Polls(w) = MaxPolls)
             => /\ pc'[w] # "poll_scan_completion"
                /\ \/ StepStatus(w, "scan")' = COMPLETED
                   \/ /\ Status(w)' = FAILED
                      /\ StepStatus(w, "scan")' = FAILED
                      /\ pc'[w] = "done"]_vars
    /\ \A w \in AllIds :
          (pc[w] = "created")
          ~> (pc[w] = "done" /\ Status(w) \in {COMPLETED, FAILED, AWAITING_APPROVAL})

\* a scan that was polled to the ceiling and timed out
C22_Witness ==
    \E w \in DOMAIN workflows :
        /\ Polls(w) = MaxPolls
        /\ pc[w] = "done"
        /\ Status(w) = FAILED
        /\ workflows[w].steps["scan"].error_message = "Polling timeout"

----------------------------------------------------------------------------
(* Properties of the control plane and the approval store *)

\* C23: CancelWorkflow takes effect only on a non-terminal workflow: on a
\* workflow that is COMPLETED, FAILED or CANCELLED it leaves the status and
\* the completed timestamp unchanged; on an unknown id it answers NotFound
\* and changes nothing.
C23_CancelOnlyNonTerminal ==
    [][\A w \in AllIds :
          Answers("cancel", w)
          => IF w \notin DOMAIN workflows
             THEN response'.code = 404 /\ workflows' = workflows
             ELSE Status(w) \in {COMPLETED, FAILED, CANCELLED}
                  => /\ Status(w)' = Status(w)
                     /\ workflows'[w].completed_at = workflows[w].completed_at]_vars

\* C24: the status of an ApprovalRequest changes at most once, and only from
\* pending to approved, rejected or expired; once it is resolved no later
\* operation (decide, list pending, reads) changes its status, resolver,
\* resolution time or resolution comment, and it stays in the store.
C24_ResolvedOnce ==
    [][\A i \in DOMAIN approvals_store :
          /\ i \in DOMAIN approvals_store'
          /\ approvals_store'[i].status # approvals_store[i].status
             => /\ approvals_store[i].status = PENDING_APPROVAL
                /\ approvals_store'[i].status \in {APPROVED, REJECTED, EXPIRED}
          /\ approvals_store[i].status # PENDING_APPROVAL
             => approvals_store'[i] = approvals_store[i]]_vars

\* an approval that expired and was then named in a decide call, which was
\* refused
C24_Witness ==
    \E i \in DOMAIN approvals_store :
        /\ approvals_store[i].status = EXPIRED
        /\ approvals_store[i].resolved_by = None
        /\ response.op = "decide_approval"
        /\ response.code = 400
        /\ i \in response.arg

\* the audit entries that record a decision on approval i
DecisionEntries(i) ==
    {k \in DOMAIN audit_entries :
        /\ audit_entries[k].approval_id = i
        /\ audit_entries[k].action \in {"approval_granted", "approval_denied"}}

\* this step answers a decide call on approval i
Decided(i) ==
    /\ response'.seq # response.seq
    /\ response'.op = "decide_approval"
    /\ response'.arg = {i}

\* C25: of any number of decide calls on the same pending approval exactly
\* one succeeds and sets the terminal status; every other call is answered
\* InvalidState (400) and changes nothing; the recorded resolver, time and
\* comment are those of the successful call.
C25_OneDecideSucceeds ==
    /\ [](\A i \in DOMAIN approvals_store :
             /\ Cardinality(DecisionEntries(i)) <= 1
             /\ approvals_store[i].status \in {APPROVED, REJECTED}
                <=> DecisionEntries(i) # {}
             /\ \A k \in DecisionEntries(i) :
                   /\ audit_entries[k].actor = approvals_store[i].resolved_by
                   /\ audit_entries[k].action = "approval_granted"
                      <=> approvals_store[i].status = APPROVED)
    /\ [][\A i \in DOMAIN approvals_store :
             Decided(i)
             => IF approvals_store[i].status = PENDING_APPROVAL
                THEN /\ response'.code = 200
                     /\ \E d \in Decisions :
                           approvals_store' = [approvals_store EXCEPT ![i] =
                               [@ EXCEPT !.status = IF d.approved THEN APPROVED
                                                    ELSE REJECTED,
                                         !.resolved_by = d.resolver,
                                         !.resolved_at = now,
                                         !.resolution_comment = d.comment]]
                ELSE /\ response'.code = 400
                     /\ approvals_store' = approvals_store
                     /\ audit_entries' = audit_entries]_vars

\* alice approved, and a later decide call on the same approval was refused
C25_Witness ==
    \E i \in DOMAIN approvals_store :
        /\ approvals_store[i].status = APPROVED
        /\ approvals_store[i].resolved_by = "alice"
        /\ approvals_store[i].resolved_at < now
        /\ response.op = "decide_approval"
        /\ response.code = 400
        /\ response.arg = {i}

\* C26: a pending approval whose expires_at has passed is treated as expired
\* by the next operation that reads it: a decide call on it is answered
\* InvalidState (400) and never records it as approved or rejected, and a
\* listing of the pending approvals does not return it.
C26_ExpiredOnNextRead ==
    [][\A i \in Elapsed(now) :
          /\ Decided(i)
             => /\ response'.code = 400
                /\ approvals_store'[i].status \notin {APPROVED, REJECTED}
          /\ (response'.seq # response.seq /\ response'.op = "get_pending_approvals")
             => i \notin response'.arg]_vars

\* C27: ListPending returns exactly the approvals that are pending and whose
\* expires_at has not elapsed, and before returning it sets every pending
\* approval whose expires_at has elapsed to expired; it changes nothing
\* else, in particular no approval that is approved or rejected.
C27_ListPending ==
    [][(response'.seq # response.seq /\ response'.op = "get_pending_approvals")
       => /\ response'.arg =
                {i \in DOMAIN approvals_store :
                    /\ approvals_store[i].status = PENDING_APPROVAL
                    /\ approvals_store[i].expires_at >= now}
          /\ DOMAIN approvals_store' = DOMAIN approvals_store
          /\ \A i \in DOMAIN approvals_store :
                approvals_store'[i] =
                    IF /\ approvals_store[i].status = PENDING_APPROVAL
                       /\ approvals_store[i].expires_at < now
                    THEN [approvals_store[i] EXCEPT !.status = EXPIRED]
                    ELSE approvals_store[i]]_vars

\* a listing that returned one approval and expired another
C27_Witness ==
    /\ response.op = "get_pending_approvals"
    /\ \E i, j \in DOMAIN approvals_store :
          /\ i \in response.arg
          /\ approvals_store[i].status = PENDING_APPROVAL
          /\ j \notin response.arg
          /\ approvals_store[j].status = EXPIRED

\* C28: CreateApproval always stores a new approval with status pending,
\* before the notification is sent, and it succeeds when delivery of the
\* notification fails: the call is answered 200 and the failed delivery
\* leaves the store as it is.
C28_CreateSurvivesNotification ==
    /\ [][Len(approvals_store') # Len(approvals_store)
          => /\ Len(approvals_store') = Len(approvals_store) + 1
             /\ SubSeq(approvals_store', 1, Len(approvals_store)) = approvals_store
             /\ approvals_store'[Len(approvals_store')].status = PENDING_APPROVAL
             /\ approvals_store'[Len(approvals_store')].resolved_by = None]_vars
    /\ [](\A k \in DOMAIN notification_service.sending :
             notification_service.sending[k] \in DOMAIN approvals_store)
    /\ [][Len(notification_service'.sending) < Len(notification_service.sending)
          => /\ response'.seq # response.seq
             /\ response'.op = "create_approval"
             /\ response'.code = 200
             /\ response'.arg \subseteq DOMAIN approvals_store
             /\ approvals_store' = approvals_store]_vars

\* a creation whose notification failed: answered 200, the approval stored
\* and pending
C28_Witness ==
    /\ notification_service.teams_log = "failed"
    /\ response.op = "create_approval"
    /\ response.code = 200
    /\ \E i \in response.arg :
          /\ i \in DOMAIN approvals_store
          /\ approvals_store[i].status = PENDING_APPROVAL

\* an approval request that references w and is still pending / is decided
PendingFor(w) ==
    \E i \in ApprovalsOf(w) : approvals_store[i].status = PENDING_APPROVAL

DecidedFor(w) ==
    \E i \in ApprovalsOf(w) : approvals_store[i].status \in {APPROVED, REJECTED}

\* w waits for approval although the approval request that references it
\* has been decided
Suspended(w) ==
    /\ w \in DOMAIN workflows
    /\ Status(w) = AWAITING_APPROVAL
    /\ DecidedFor(w)
    /\ ~PendingFor(w)

\* a workflow is AWAITING_APPROVAL only while a pending approval request
\* that references it exists
AwaitingHasPending ==
    [](\A w \in DOMAIN workflows : Status(w) = AWAITING_APPROVAL => PendingFor(w))

\* a workflow whose approval request is decided leaves AWAITING_APPROVAL
DecidedLeavesAwaiting ==
    \A w \in AllIds : Suspended(w) ~> ~Suspended(w)

\* C29: a human decision resumes the suspended workflow: a workflow is
\* AWAITING_APPROVAL only while a pending approval request that references
\* it exists, and once the approval request of a workflow in
\* AWAITING_APPROVAL is decided the workflow leaves AWAITING_APPROVAL.
C29_DecisionResumes ==
    /\ AwaitingHasPending
    /\ DecidedLeavesAwaiting

\* positions in the audit trail of the entries of workflow w with `action`
Audited(w, action) ==
    {k \in DOMAIN audit_entries :
        audit_entries[k].workflow_id = w /\ audit_entries[k].action = action}

\* every entry of w with action `first` comes before every one with `then`
Precedes(w, first, then) ==
    \A k1 \in Audited(w, first), k2 \in Audited(w, then) : k1 < k2

\* C30: every stage transition and approval decision of a workflow has its
\* audit entry carrying the workflow's id (scan completed, assessment
\* completed, approval requested, remediation, workflow completed), and the
\* entries of one workflow are in the order of its transitions.
C30_AuditTrail ==
    \A w \in DOMAIN workflows :
        /\ StepStatus(w, "scan") = COMPLETED => Audited(w, "scan_completed") # {}
        /\ StepStatus(w, "assess") = COMPLETED
           => Audited(w, "assessment_completed") # {}
        /\ Status(w) = AWAITING_APPROVAL => Audited(w, "approval_requested") # {}
        /\ StepStatus(w, "remediate") = COMPLETED
           => Audited(w, "remediation_completed") # {}
        /\ Status(w) = COMPLETED => Audited(w, "workflow_completed") # {}
        /\ Precedes(w, "scan_completed", "assessment_completed")
        /\ Precedes(w, "assessment_completed", "workflow_completed")

----------------------------------------------------------------------------
(* Further properties of the workflow engine *)

\* C31: every failure of a workflow stage (collaborator error, poll timeout,
\* unhandled exception) appends an audit entry of that workflow with
\* success = false, so every workflow in FAILED has such an entry.
C31_FailuresAudited ==
    \A w \in DOMAIN workflows :
        Status(w) = FAILED
        => \E k \in DOMAIN audit_entries :
              /\ audit_entries[k].workflow_id = w
              /\ ~audit_entries[k].success

\* C36: a workflow whose status is COMPLETED has its completed timestamp
\* set (normal completion, approval and rejection all set it).
C36_CompletedAtSet ==
    \A w \in DOMAIN workflows : Status(w) = COMPLETED => workflows[w].completed_at # 0

\* C38: under any interleaving of the execution unit with approve, reject
\* and cancel calls, a COMPLETED workflow has awaiting_approval = 0 and a
\* workflow in AWAITING_APPROVAL has awaiting_approval >= 1.
C38_AwaitingCount ==
    \A w \in DOMAIN workflows :
        /\ Status(w) = COMPLETED => workflows[w].awaiting_approval = 0
        /\ Status(w) = AWAITING_APPROVAL => workflows[w].awaiting_approval >= 1

\* positions in calls[w] of the requests sent to the remediate collaborator
Remediations(w) == {i \in 1..Len(calls[w]) : calls[w][i].to = "remediate"}

\* C39: an approval submits to the remediate collaborator only
\* vulnerabilities that the decision step routed to approval, so no
\* vulnerability of a workflow is submitted for remediation more than once.
C39_SubmittedOnce ==
    \A w \in DOMAIN workflows :
        /\ \A i \in Requests(w, "remediate", "approve") :
              Range(calls[w][i].vulns) \subseteq RoutedToApproval(w)
        /\ \A i, j \in Remediations(w) :
              i # j => Range(calls[w][i].vulns) \cap Range(calls[w][j].vulns) = {}

\* a workflow that was AWAITING_APPROVAL with a count of at least one and
\* was then completed by an approve or reject call
C38_Witness ==
    \E w \in DOMAIN workflows :
        /\ Status(w) = COMPLETED
        /\ StepStatus(w, "remediate") = AWAITING_APPROVAL
        /\ workflows[w].steps["remediate"].output_data.awaiting_approval >= 1
        /\ workflows[w].awaiting_approval = 0
        /\ workflows[w].completed_at # 0

\* the execution unit of w has returned from the decision step
DecisionDone(w) ==
    /\ pc[w] = "done"
    /\ StepStatus(w, "assess") = COMPLETED
    /\ Status(w) # FAILED

\* the assessed vulnerabilities of w with priority P2
P2Ids(w) ==
    {AssessmentsOf(w)[k].vulnerability_id :
        k \in {k \in 1..Len(AssessmentsOf(w)) : AssessmentsOf(w)[k].priority = "P2"}}

\* the ids the execution unit of w submitted for auto-remediation
AutoSubmitted(w) ==
    UNION {Range(calls[w][i].vulns) : i \in Requests(w, "remediate", "engine")}

\* C37: with auto_remediate_p2 false the decision step routes a P2
\* vulnerability nowhere: it is not submitted for auto-remediation, it is
\* not counted in awaiting_approval and it does not by itself move the
\* workflow to AWAITING_APPROVAL.
C37_P2RoutedNowhere ==
    \A w \in DOMAIN workflows :
        (~settings.auto_remediate_p2 /\ DecisionDone(w) /\ P2Ids(w) # {})
        => /\ P2Ids(w) \cap AutoSubmitted(w) = {}
           /\ workflows[w].awaiting_approval
                 = Cardinality(RoutedToApproval(w) \ P2Ids(w))
           /\ RoutedToApproval(w) \subseteq P2Ids(w)
              => Status(w) # AWAITING_APPROVAL

\* C37 as the code has it: with auto_remediate_p2 false the decision step
\* puts a P2 vulnerability in the approval queue: it is not submitted for
\* auto-remediation, it is counted in awaiting_approval and the workflow
\* becomes AWAITING_APPROVAL.
C37_P2AwaitsApproval ==
    \A w \in DOMAIN workflows :
        (~settings.auto_remediate_p2 /\ DecisionDone(w) /\ P2Ids(w) # {})
        => /\ P2Ids(w) \cap AutoSubmitted(w) = {}
           /\ P2Ids(w) \subseteq RoutedToApproval(w)
           /\ workflows[w].awaiting_approval = Cardinality(RoutedToApproval(w))
           /\ Status(w) = AWAITING_APPROVAL

\* a workflow whose only finding is P2 waits for approval
C37_Witness ==
    \E w \in DOMAIN workflows :
        /\ ~settings.auto_remediate_p2
        /\ DecisionDone(w)
        /\ P2Ids(w) # {}
        /\ RoutedToApproval(w) = P2Ids(w)
        /\ Status(w) = AWAITING_APPROVAL
        /\ workflows[w].awaiting_approval = Cardinality(P2Ids(w))

----------------------------------------------------------------------------
(* Properties of the audit trail *)

\* the audit entries that record the creation of approval i
RequestEntries(i) ==
    {k \in DOMAIN audit_entries :
        /\ audit_entries[k].approval_id = i
        /\ audit_entries[k].action = "approval_requested"}

\* C40: for every approval the audit log holds exactly one
\* approval-requested entry, appended at creation, and at most one
\* approval-granted/denied entry, appended after it by the one successful
\* decide call with the resolver as actor; a decide call answered NotFound
\* (404) or InvalidState (400) appends no entry.
C40_ApprovalAudit ==
    /\ [](\A i \in DOMAIN approvals_store :
             /\ Cardinality(RequestEntries(i)) = 1
             /\ Cardinality(DecisionEntries(i)) <= 1
             /\ \A k \in DecisionEntries(i) :
                   /\ \A r \in RequestEntries(i) : r < k
                   /\ audit_entries[k].actor = approvals_store[i].resolved_by
                   /\ audit_entries[k].actor \in {d.resolver : d \in Decisions}
                   /\ audit_entries[k].workflow_id = approvals_store[i].workflow_id)
    /\ [][Len(approvals_store') # Len(approvals_store)
          => /\ Len(audit_entries') = Len(audit_entries) + 1
             /\ SubSeq(audit_entries', 1, Len(audit_entries)) = audit_entries
             /\ audit_entries'[Len(audit_entries')].action = "approval_requested"
             /\ audit_entries'[Len(audit_entries')].approval_id = Len(approvals_store')]_vars
    /\ [][(/\ response'.seq # response.seq
           /\ response'.op = "decide_approval"
           /\ response'.code \in {400, 404})
          => audit_entries' = audit_entries]_vars

\* an approval that was created, denied by bob, and then named in a decide
\* call that was refused: two entries
C40_Witness ==
    /\ Len(audit_entries) = 2
    /\ audit_entries[1].action = "approval_requested"
    /\ audit_entries[2].action = "approval_denied"
    /\ audit_entries[2].actor = "bob"
    /\ audit_entries[2].approval_id = audit_entries[1].approval_id
    /\ response.op = "decide_approval"
    /\ response.code = 400

----------------------------------------------------------------------------
(* Properties of the audit log and the comments *)

\* C32: the audit log is append-only: no operation (log, query, timeline,
\* export, add_comment, edit_comment) removes, reorders or modifies an
\* existing entry; the stored sequence only grows at its end.
C32_AppendOnly ==
    [][/\ Len(audit_entries') >= Len(audit_entries)
       /\ SubSeq(audit_entries', 1, Len(audit_entries)) = audit_entries]_vars

\* a comment was added, which stored an entry, the comment was edited, and
\* the log was then queried
C32_Witness ==
    /\ Len(audit_entries) = 1
    /\ audit_entries[1].action = "comment_added"
    /\ \E tk \in CommentSlots : CommentAt(tk).edited_at # NoTime
    /\ response.op \in {"get_audit_log", "get_workflow_timeline", "export_audit_log"}

\* the timestamp of the entry at position i
Timestamp(i) == audit_entries[i].timestamp

\* no position occurs twice in r
NoDuplicates(r) == \A i, j \in DOMAIN r : r[i] = r[j] => i = j

\* C33: the timeline of a workflow holds exactly the audit entries whose
\* workflow id is that workflow, in non-decreasing timestamp order, entries
\* of equal timestamp in insertion order.
C33_Timeline ==
    [][\A w \in AllIds :
          get_workflow_timeline(w) =>
             LET r == response'.arg
             IN /\ NoDuplicates(r)
                /\ {r[i] : i \in DOMAIN r} =
                      {k \in DOMAIN audit_entries : audit_entries[k].workflow_id = w}
                /\ \A i, j \in DOMAIN r :
                      i < j => \/ Timestamp(r[i]) < Timestamp(r[j])
                               \/ /\ Timestamp(r[i]) = Timestamp(r[j])
                                  /\ r[i] < r[j]]_vars

\* a timeline of two entries in which the entry stored later, with the
\* earlier timestamp, comes first
C33_Witness ==
    /\ response.op = "get_workflow_timeline"
    /\ response.arg = <<2, 1>>
    /\ Len(audit_entries) = 2

\* entry k matches the filters a client supplied to GET /audit
Matches(k, workflow_id, vulnerability_id, action, actor) ==
    /\ workflow_id # None => audit_entries[k].workflow_id = workflow_id
    /\ vulnerability_id # None => audit_entries[k].vulnerability_id = vulnerability_id
    /\ action # None => audit_entries[k].action = action
    /\ actor # None => audit_entries[k].actor = actor

\* C34: a query returns only entries that match every supplied filter,
\* sorted by timestamp descending, never more than limit entries, and those
\* are the newest matching ones.
C34_Query ==
    [][\A w \in AllIds \cup {None}, v \in VulnerabilityNames, action \in ActionNames,
          actor \in ActorNames, limit \in Limits :
          get_audit_log(w, v, action, actor, limit) =>
             LET r == response'.arg
                 returned == {r[i] : i \in DOMAIN r}
             IN /\ NoDuplicates(r)
                /\ \A k \in returned : Matches(k, w, v, action, actor)
                /\ \A i, j \in DOMAIN r : i < j => Timestamp(r[i]) >= Timestamp(r[j])
                /\ Len(r) <= IF limit > 0 THEN limit ELSE 0
                /\ \A k \in DOMAIN audit_entries :
                      (Matches(k, w, v, action, actor) /\ k \notin returned)
                         => \A m \in returned : Timestamp(k) <= Timestamp(m)]_vars

\* the comment with id c, if there is one
Slot(c) == {tk \in CommentSlots : CommentAt(tk).comment_id = c}

\* C35: an edit changes the content of a comment only when the editor is the
\* author of the comment; an edit by anyone else, or of an unknown id, fails
\* and leaves every comment unchanged; no edit changes author, target or id
\* of a comment, and no operation removes a comment.
C35_EditByAuthor ==
    [][/\ \A c \in 1..MaxCalls, a \in Authors :
             edit_comment(c, NewContent, a) =>
                IF \E tk \in Slot(c) : CommentAt(tk).author = a
                THEN /\ response'.code = 200
                     /\ \A tk \in Slot(c) : CommentAt(tk)'.content = NewContent
                     /\ \A tk \in CommentSlots \ Slot(c) : CommentAt(tk)' = CommentAt(tk)
                ELSE /\ response'.code = 404
                     /\ comments' = comments
       /\ \A t \in Targets :
             /\ Len(comments'[t]) >= Len(comments[t])
             /\ \A k \in DOMAIN comments[t] :
                   /\ comments'[t][k].comment_id = comments[t][k].comment_id
                   /\ comments'[t][k].author = comments[t][k].author
                   /\ comments'[t][k].target_id = comments[t][k].target_id
                   /\ comments'[t][k].content # comments[t][k].content
                         => edit_comment(comments[t][k].comment_id, NewContent,
                                         comments[t][k].author)]_vars

\* alice edited her comment, and bob's edit of it was then refused
C35_Witness ==
    /\ \E tk \in CommentSlots :
          /\ CommentAt(tk).author = "alice"
          /\ CommentAt(tk).content = NewContent
          /\ CommentAt(tk).edited_at # NoTime
    /\ response.op = "edit_comment"
    /\ response.code = 404
    /\ ops = 3

====
